---- MODULE Spec2Model ----
(***************************************************************************)
(* MediNex contracts: the contribution ledger (contribution.rs), the model *)
(* registry (model_registry.rs) and the MDNX token record (token.rs), with *)
(* the account constraints of the instruction contexts (lib.rs).           *)
(*                                                                         *)
(* Every instruction is one atomic step (a Solana transaction either       *)
(* commits all of its account writes or none).  Ratios stored as f64 are   *)
(* fixed point numbers with AccScale steps per unit.                       *)
(***************************************************************************)
EXTENDS Integers, Sequences, FiniteSets, TLC

\* ---------------------------------------------------------------- bounds
MaxTime == 2

\* ------------------------------------------------------- program constants
MinHashLen == 16
AccScale == 100
AuthorityTransferWindow == 86400
MintInterval == 3600

\* ------------------------------------------------------------ identities
\* alice and bob own models; carol owns none and is the one who contributes.
Wallets == {"alice", "bob", "carol"}
Contributors == {"carol"}
TokenAccounts == {"ta_alice", "ta_carol"}
TaOwner == [ta \in TokenAccounts |-> IF ta = "ta_alice" THEN "alice" ELSE "carol"]
MdnxMint == "mint_mdnx"
TaMint == [ta \in TokenAccounts |-> MdnxMint]
ModelIds == {"m1", "m2"}
ContribIds == {"c1"}
TokenIds == {"mdnx_token"}

\* -------------------------------------------------------- input domains
\* Option<T>: None is the empty sequence, Some(x) the one-element sequence.
None == <<>>
Some(x) == <<x>>
NoContribution == "none"
HashLens == {15, 16}
AccuracyInputs == {80, 101}
ImprovementInputs == {0, 50, 101}
Rewards == {0, 5}
ReviewNotes == {"looks promising"}
RejectionReasons == {"not reproducible"}
Supplies == {0, 1000}
StatusArgs == {"Pending", "InReview", "Approved", "Rejected"}
RegisteredName == "name 1"
RegisteredMetrics == "metrics 1"

VARIABLES now, token, models, contributions, verifications, last

vars == <<now, token, models, contributions, verifications, last>>

\* The outcome of the last instruction: its name, the contribution it was
\* aimed at, the error it returned ("Ok" on success) and the token
\* transfers it made the token program execute.
Outcome(op, c, result, transfers) ==
    [op |-> op, c |-> c, result |-> result, transfers |-> transfers]

\* An account store maps the keys of the accounts that exist to their data;
\* #[account(init)] adds a key that is not in the store yet.
Create(store, key, data) ==
    [k \in DOMAIN store \cup {key} |-> IF k = key THEN data ELSE store[k]]

\* The MdnxToken record initialize_token writes.
NewToken(caller, total_supply, current_timestamp) ==
    [total_supply |-> total_supply,
     authority |-> caller,
     is_initialized |-> TRUE,
     last_update_timestamp |-> current_timestamp,
     mint |-> MdnxMint,
     proposed_authority |-> None,
     authority_proposal_timestamp |-> 0,
     last_mint_timestamp |-> 0,
     treasury |-> caller]

\* The ModelRegistry record register_model writes.
NewModel(caller, hash_len, accuracy, current_timestamp) ==
    [name |-> RegisteredName,
     model_hash |-> hash_len,
     accuracy |-> accuracy,
     performance_metrics |-> RegisteredMetrics,
     authority |-> caller,
     created_at |-> current_timestamp,
     updated_at |-> current_timestamp,
     contribution_count |-> 0,
     verification_count |-> 0,
     avg_confidence_score |-> 0,
     usage_count |-> 0,
     is_verified |-> FALSE,
     parent_model |-> None]

\* No account exists yet.
InitEmpty ==
    /\ now = 1
    /\ token = <<>>
    /\ models = <<>>
    /\ contributions = <<>>
    /\ verifications = <<>>
    /\ last = Outcome("none", NoContribution, "Ok", <<>>)

\* The ledger starts where the deployment has been set up: alice has
\* initialized the token (initialize_token makes her wallet the treasury),
\* alice has registered m1 and bob has registered m2, each with a valid
\* hash and accuracy 0.80; no contribution has been recorded.
Init ==
    /\ now = 1
    /\ token = [t \in TokenIds |-> NewToken("alice", 1000, 1)]
    /\ models = [m \in ModelIds |->
                    NewModel(IF m = "m1" THEN "alice" ELSE "bob", MinHashLen, 80, 1)]
    /\ contributions = <<>>
    /\ verifications = <<>>
    /\ last = Outcome("none", NoContribution, "Ok", <<>>)

\* Clock::get()?.unix_timestamp never goes back.
Tick ==
    /\ now < MaxTime
    /\ now' = now + 1
    /\ UNCHANGED <<token, models, contributions, verifications, last>>

\* ------------------------------------------------------------ token.rs
\* The zero supply is accepted.
initialize_token_ZeroAllowed(caller, total_supply, current_timestamp) ==
    [result |-> "Ok", token |-> Some(NewToken(caller, total_supply, current_timestamp))]

\* initialize_token: the result and the record it leaves in the new account
\* (none when it fails).
initialize_token(caller, total_supply, current_timestamp) ==
    IF total_supply = 0
    THEN [result |-> "InvalidTokenSupply", token |-> None]
    ELSE [result |-> "Ok",
          token |-> Some(NewToken(caller, total_supply, current_timestamp))]

\* The instruction on a new account.
InitializeOnNew(caller, total_supply, current_timestamp) ==
    initialize_token(caller, total_supply, current_timestamp)

\* The handler runs on the existing account as it does on a new one.
InitializeOnExisting_Overwrites(caller, total_supply, current_timestamp) ==
    initialize_token(caller, total_supply, current_timestamp)

\* The instruction on an account that holds a record: #[account(init)]
\* asks the system program to create the account, which is refused for an
\* account already in use, before the handler runs.
InitializeOnExisting(caller, total_supply, current_timestamp) ==
    [result |-> "AccountAlreadyInUse", token |-> None]

InitializeToken ==
    \E t \in TokenIds, caller \in Wallets, total_supply \in Supplies :
        LET done == IF t \in DOMAIN token
                    THEN InitializeOnExisting(caller, total_supply, now)
                    ELSE InitializeOnNew(caller, total_supply, now)
        IN  /\ token' = IF done.result = "Ok"
                        THEN Create(token, t, done.token[1])
                        ELSE token
            /\ last' = Outcome("InitializeToken", NoContribution, done.result, <<>>)
            /\ UNCHANGED <<now, models, contributions, verifications>>

\* The signer is not compared with the authority.
set_treasury_AnyCaller(mdnx_token, caller, new_treasury, current_timestamp) ==
    [result |-> "Ok",
     token |-> [mdnx_token EXCEPT !.treasury = new_treasury,
                                  !.last_update_timestamp = current_timestamp]]

set_treasury(mdnx_token, caller, new_treasury, current_timestamp) ==
    IF mdnx_token.authority # caller
    THEN [result |-> "UnauthorizedAccess", token |-> mdnx_token]
    ELSE [result |-> "Ok",
          token |-> [mdnx_token EXCEPT !.treasury = new_treasury,
                                       !.last_update_timestamp = current_timestamp]]

SetTreasury ==
    \E t \in DOMAIN token, caller \in Wallets, new_treasury \in TokenAccounts :
        LET done == set_treasury(token[t], caller, new_treasury, now)
        IN  /\ token' = [token EXCEPT ![t] = done.token]
            /\ last' = Outcome("SetTreasury", NoContribution, done.result, <<>>)
            /\ UNCHANGED <<now, models, contributions, verifications>>

\* ---------------------------------------------------- model_registry.rs
\* register_model: the result and the record it leaves in the new account
\* (none when it fails).
register_model(caller, hash_len, accuracy, current_timestamp) ==
    IF hash_len < MinHashLen
    THEN [result |-> "InvalidModelHash", model |-> None]
    ELSE IF accuracy < 0 \/ accuracy > AccScale
    THEN [result |-> "InvalidAccuracyValue", model |-> None]
    ELSE [result |-> "Ok",
          model |-> Some(NewModel(caller, hash_len, accuracy, current_timestamp))]

RegisterModel ==
    \E m \in ModelIds, caller \in Wallets, hash_len \in HashLens,
       accuracy \in AccuracyInputs :
        /\ m \notin DOMAIN models
        /\ LET done == register_model(caller, hash_len, accuracy, now)
           IN  /\ models' = IF done.result = "Ok"
                            THEN Create(models, m, done.model[1])
                            ELSE models
               /\ last' = Outcome("RegisterModel", NoContribution, done.result, <<>>)
        /\ UNCHANGED <<now, token, contributions, verifications>>

\* ------------------------------------------------------ contribution.rs
\* The Contribution record record_contribution writes.
NewContribution(m, contributor, accuracy_improvement, hash_len, current_timestamp) ==
    [model |-> m,
     contributor |-> contributor,
     accuracy_improvement |-> accuracy_improvement,
     status |-> "Pending",
     reward_amount |-> 0,
     created_at |-> current_timestamp,
     updated_at |-> current_timestamp,
     processed_at |-> None,
     contribution_hash |-> hash_len,
     notes |-> ""]

\* The count of the Model is left as it was.
record_contribution_NoCount(model_key, model, contributor, accuracy_improvement, hash_len, current_timestamp) ==
    IF accuracy_improvement < 0 \/ accuracy_improvement > AccScale
    THEN [result |-> "InvalidContributionImprovementValue",
          contribution |-> None, model |-> model]
    ELSE IF hash_len < MinHashLen
    THEN [result |-> "InvalidDataHash", contribution |-> None, model |-> model]
    ELSE [result |-> "Ok",
          contribution |-> Some(NewContribution(model_key, contributor,
                                                accuracy_improvement, hash_len,
                                                current_timestamp)),
          model |-> model]

\* record_contribution: the result, the record it leaves in the new
\* Contribution account (none when it fails) and the Model it leaves.
record_contribution(model_key, model, contributor, accuracy_improvement, hash_len, current_timestamp) ==
    IF accuracy_improvement < 0 \/ accuracy_improvement > AccScale
    THEN [result |-> "InvalidContributionImprovementValue",
          contribution |-> None, model |-> model]
    ELSE IF hash_len < MinHashLen
    THEN [result |-> "InvalidDataHash", contribution |-> None, model |-> model]
    ELSE [result |-> "Ok",
          contribution |-> Some(NewContribution(model_key, contributor,
                                                accuracy_improvement, hash_len,
                                                current_timestamp)),
          model |-> [model EXCEPT !.contribution_count = @ + 1]]

RecordContribution ==
    \E c \in ContribIds, m \in DOMAIN models, contributor \in Contributors,
       accuracy_improvement \in ImprovementInputs, hash_len \in HashLens :
        /\ c \notin DOMAIN contributions
        /\ LET done == record_contribution(m, models[m], contributor,
                                           accuracy_improvement, hash_len, now)
           IN  /\ contributions' = IF done.result = "Ok"
                                   THEN Create(contributions, c, done.contribution[1])
                                   ELSE contributions
               /\ models' = [models EXCEPT ![m] = done.model]
               /\ last' = Outcome("RecordContribution", c, done.result, <<>>)
        /\ UNCHANGED <<now, token, verifications>>

\* The status argument is stored.
review_contribution_UsesArgument(contribution, status, notes, current_timestamp) ==
    [contribution EXCEPT !.status = status,
                         !.notes = notes,
                         !.updated_at = current_timestamp]

\* review_contribution: no guard at all, any signer and any current status;
\* the status argument is not used.
review_contribution(contribution, status, notes, current_timestamp) ==
    [contribution EXCEPT !.status = "InReview",
                         !.notes = notes,
                         !.updated_at = current_timestamp]

ReviewContribution ==
    \E c \in DOMAIN contributions, reviewer \in Wallets,
       status \in StatusArgs, notes \in ReviewNotes :
        /\ contributions' = [contributions EXCEPT ![c] =
                                review_contribution(@, status, notes, now)]
        /\ last' = Outcome("ReviewContribution", c, "Ok", <<>>)
        /\ UNCHANGED <<now, token, models, verifications>>

\* The guard with the Rejected arm forgotten.
IsProcessed_ApprovedOnly(contribution) == contribution.status = "Approved"

\* The guard with the Approved arm forgotten.
IsProcessed_RejectedOnly(contribution) == contribution.status = "Rejected"

\* The terminal-state guard of approve_contribution and reject_contribution.
IsProcessed(contribution) ==
    \/ contribution.status = "Approved"
    \/ contribution.status = "Rejected"

\* The model is never compared with the one recorded in the Contribution.
ModelMatches_Unchecked(contribution, model_key) == TRUE

\* contribution.model == model_registry.key(), the constraint of the
\* ApproveContribution context and the check repeated in the handler.
ModelMatches(contribution, model_key) == contribution.model = model_key

\* model_registry.authority == authority.key()
IsModelAuthority(model, caller) == model.authority = caller

\* Only the mint of the treasury account is checked, not its key.
TreasuryMatches_MintOnly(mdnx_token, treasury) ==
    TaMint[treasury] = mdnx_token.mint

\* treasury.mint == mdnx_token.mint and treasury.key() == mdnx_token.treasury
TreasuryMatches(mdnx_token, treasury) ==
    /\ TaMint[treasury] = mdnx_token.mint
    /\ treasury = mdnx_token.treasury

\* The improvement is taken off the accuracy instead of added to it.
BlendAccuracy_Subtracted(accuracy, accuracy_improvement) ==
    LET product == (accuracy_improvement * (AccScale - accuracy)
                    + AccScale \div 2) \div AccScale
        new_accuracy == accuracy - product
    IN  IF new_accuracy > AccScale THEN AccScale ELSE new_accuracy

\* The improvement is added whole, not scaled by the headroom 1 - accuracy.
BlendAccuracy_Added(accuracy, accuracy_improvement) ==
    LET new_accuracy == accuracy + accuracy_improvement
    IN  IF new_accuracy > AccScale THEN AccScale ELSE new_accuracy

\* f64 product and sum, rounded to the nearest step.
BlendAccuracy(accuracy, accuracy_improvement) ==
    LET product == (accuracy_improvement * (AccScale - accuracy)
                    + AccScale \div 2) \div AccScale
        new_accuracy == accuracy + product
    IN  IF new_accuracy > AccScale THEN AccScale ELSE new_accuracy

\* The constraints Anchor checks, in field order, before the handler of
\* approve_contribution runs; "Ok" when all of them hold.
ApproveAccountsCheck(contribution, model_key, model, mdnx_token, treasury, caller) ==
    IF ~ModelMatches(contribution, model_key) THEN "ModelMismatch"
    ELSE IF ~IsModelAuthority(model, caller) THEN "Unauthorized"
    ELSE IF ~TreasuryMatches(mdnx_token, treasury) THEN "InvalidTokenAccount"
    ELSE "Ok"

\* The transfer approve_contribution asks the token program for.
RewardTransfer(treasury, contributor_token_account, caller, reward_amount) ==
    [from |-> treasury, to |-> contributor_token_account,
     authority |-> caller, amount |-> reward_amount]

\* The answer of the token program is dropped instead of propagated.
ApproveResult_TransferIgnored(contribution, model_key, model, mdnx_token, treasury, caller, reward_amount, cpi_ok) ==
    LET constraints == ApproveAccountsCheck(contribution, model_key, model,
                                            mdnx_token, treasury, caller)
    IN
    IF constraints # "Ok" THEN constraints
    ELSE IF IsProcessed(contribution) THEN "ContributionAlreadyProcessed"
    ELSE IF ~ModelMatches(contribution, model_key) THEN "ModelMismatch"
    ELSE "Ok"

\* The result of the ApproveContribution instruction; cpi_ok is the answer
\* of the token program to token::transfer, which the handler propagates.
ApproveResult(contribution, model_key, model, mdnx_token, treasury, caller, reward_amount, cpi_ok) ==
    LET constraints == ApproveAccountsCheck(contribution, model_key, model,
                                            mdnx_token, treasury, caller)
    IN
    IF constraints # "Ok" THEN constraints
    ELSE IF IsProcessed(contribution) THEN "ContributionAlreadyProcessed"
    ELSE IF ~ModelMatches(contribution, model_key) THEN "ModelMismatch"
    ELSE IF reward_amount > 0 /\ ~cpi_ok THEN "TransferFailed"
    ELSE "Ok"

\* An approval is counted as one more contribution of the Model.
approve_contribution_CountsAgain(contribution, model_key, model, mdnx_token, treasury, contributor_token_account, caller, reward_amount, cpi_ok, current_timestamp) ==
    LET result == ApproveResult(contribution, model_key, model, mdnx_token,
                                treasury, caller, reward_amount, cpi_ok)
    IN  IF result = "Ok"
        THEN [result |-> "Ok",
              model |-> [model EXCEPT
                            !.accuracy =
                                IF contribution.accuracy_improvement > 0
                                THEN BlendAccuracy(@, contribution.accuracy_improvement)
                                ELSE @,
                            !.contribution_count = @ + 1],
              contribution |-> [contribution EXCEPT
                                    !.status = "Approved",
                                    !.reward_amount = reward_amount,
                                    !.processed_at = Some(current_timestamp),
                                    !.updated_at = current_timestamp],
              transfers |-> IF reward_amount > 0
                            THEN <<RewardTransfer(treasury, contributor_token_account,
                                                  caller, reward_amount)>>
                            ELSE <<>>]
        ELSE [result |-> result, model |-> model,
              contribution |-> contribution, transfers |-> <<>>]

\* approve_contribution on the accounts of its context: the result, the
\* Contribution and the Model it leaves and the transfers it has made.  A
\* failed instruction commits nothing.
approve_contribution(contribution, model_key, model, mdnx_token, treasury, contributor_token_account, caller, reward_amount, cpi_ok, current_timestamp) ==
    LET result == ApproveResult(contribution, model_key, model, mdnx_token,
                                treasury, caller, reward_amount, cpi_ok)
    IN  IF result = "Ok"
        THEN [result |-> "Ok",
              model |-> [model EXCEPT !.accuracy =
                            IF contribution.accuracy_improvement > 0
                            THEN BlendAccuracy(@, contribution.accuracy_improvement)
                            ELSE @],
              contribution |-> [contribution EXCEPT
                                    !.status = "Approved",
                                    !.reward_amount = reward_amount,
                                    !.processed_at = Some(current_timestamp),
                                    !.updated_at = current_timestamp],
              transfers |-> IF reward_amount > 0
                            THEN <<RewardTransfer(treasury, contributor_token_account,
                                                  caller, reward_amount)>>
                            ELSE <<>>]
        ELSE [result |-> result, model |-> model,
              contribution |-> contribution, transfers |-> <<>>]

\* The inputs of an ApproveContribution instruction: the model, token,
\* treasury and recipient accounts, the signer, the reward and the answer
\* the token program gives if it is asked.
ApproveInputs ==
    [m : ModelIds, t : TokenIds, treasury : TokenAccounts, dest : TokenAccounts,
     caller : Wallets, reward_amount : Rewards, cpi_ok : BOOLEAN]

\* The instruction with inputs a, given the data of its two writable accounts.
ApproveOn(contribution, model, a) ==
    approve_contribution(contribution, a.m, model, token[a.t], a.treasury,
                         a.dest, a.caller, a.reward_amount, a.cpi_ok, now)

\* The instruction with inputs a on contribution c in the current state.
Approve(c, a) == ApproveOn(contributions[c], models[a.m], a)

ApproveContribution ==
    \E c \in DOMAIN contributions, a \in ApproveInputs :
        /\ a.m \in DOMAIN models
        /\ a.t \in DOMAIN token
        /\ a.reward_amount = 0 => a.cpi_ok    \* no transfer, nothing to answer
        /\ LET done == Approve(c, a)
           IN  /\ contributions' = [contributions EXCEPT ![c] = done.contribution]
               /\ models' = [models EXCEPT ![a.m] = done.model]
               /\ last' = Outcome("ApproveContribution", c, done.result, done.transfers)
        /\ UNCHANGED <<now, token, verifications>>

\* The constraint of the RejectContribution context.
RejectAccountsCheck(model, caller) ==
    IF ~IsModelAuthority(model, caller) THEN "Unauthorized" ELSE "Ok"

\* reject_contribution on the accounts of its context.
reject_contribution(contribution, model, caller, rejection_reason, current_timestamp) ==
    IF RejectAccountsCheck(model, caller) # "Ok"
    THEN [result |-> RejectAccountsCheck(model, caller), contribution |-> contribution]
    ELSE IF IsProcessed(contribution)
    THEN [result |-> "ContributionAlreadyProcessed", contribution |-> contribution]
    ELSE [result |-> "Ok",
          contribution |-> [contribution EXCEPT
                                !.status = "Rejected",
                                !.notes = rejection_reason,
                                !.processed_at = Some(current_timestamp),
                                !.updated_at = current_timestamp]]

RejectInputs == [m : ModelIds, caller : Wallets, rejection_reason : RejectionReasons]

\* The instruction with inputs a, given the data of its writable account.
RejectOn(contribution, a) ==
    reject_contribution(contribution, models[a.m], a.caller, a.rejection_reason, now)

\* The instruction with inputs a on contribution c in the current state.
Reject(c, a) == RejectOn(contributions[c], a)

RejectContribution ==
    \E c \in DOMAIN contributions, a \in RejectInputs :
        /\ a.m \in DOMAIN models
        /\ LET done == Reject(c, a)
           IN  /\ contributions' = [contributions EXCEPT ![c] = done.contribution]
               /\ last' = Outcome("RejectContribution", c, done.result, <<>>)
        /\ UNCHANGED <<now, token, models, verifications>>

\* The deployment steps that lead from no account at all to Init.
NextSetup ==
    \/ InitializeToken
    \/ RegisterModel

SpecSetup == InitEmpty /\ [][NextSetup]_vars

Next ==
    \/ Tick
    \/ SetTreasury
    \/ RecordContribution
    \/ ReviewContribution
    \/ ApproveContribution
    \/ RejectContribution

Spec == Init /\ [][Next]_vars

\* ------------------------------------------------- updates and derivation
UpdateNameInputs == {None, Some("name 2")}
UpdateHashInputs == {None, Some(15), Some(16)}
UpdateAccuracyInputs == {None, Some(0), Some(101)}
UpdateMetricsInputs == {None, Some("metrics 2")}

\* The writes of a failed instruction are kept.
Commit_Always(result, before, after) == after

\* What the runtime keeps of an instruction: the account as the handler
\* wrote it when the handler returned Ok, the account as it was when the
\* handler returned an error.
Commit(result, before, after) == IF result = "Ok" THEN after ELSE before

\* The signer is not compared with the authority of the Model.
HasOneAuthority_Unchecked(model, caller) == TRUE

\* has_one = authority, the constraint of the UpdateModel context.
HasOneAuthority(model, caller) == model.authority = caller

\* The accuracy argument is stored without the range check.
update_model_Unvalidated(model, name, model_hash, accuracy, performance_metrics, current_timestamp) ==
    LET named == IF name # None THEN [model EXCEPT !.name = name[1]] ELSE model
    IN  IF model_hash # None /\ model_hash[1] < MinHashLen
        THEN [result |-> "InvalidModelHash", model |-> named]
        ELSE [result |-> "Ok",
              model |-> [named EXCEPT
                  !.model_hash = IF model_hash # None THEN model_hash[1] ELSE @,
                  !.accuracy = IF accuracy # None THEN accuracy[1] ELSE @,
                  !.performance_metrics =
                      IF performance_metrics # None THEN performance_metrics[1] ELSE @,
                  !.updated_at = current_timestamp]]

\* An omitted name is stored as the empty string.
update_model_ClearsOmitted(model, name, model_hash, accuracy, performance_metrics, current_timestamp) ==
    LET named == [model EXCEPT !.name = IF name # None THEN name[1] ELSE ""]
    IN  IF model_hash # None /\ model_hash[1] < MinHashLen
        THEN [result |-> "InvalidModelHash", model |-> named]
        ELSE
        LET hashed == IF model_hash # None
                      THEN [named EXCEPT !.model_hash = model_hash[1]]
                      ELSE named
        IN  IF accuracy # None /\ (accuracy[1] < 0 \/ accuracy[1] > AccScale)
            THEN [result |-> "InvalidAccuracyValue", model |-> hashed]
            ELSE [result |-> "Ok",
                  model |-> [hashed EXCEPT
                      !.accuracy = IF accuracy # None THEN accuracy[1] ELSE @,
                      !.performance_metrics =
                          IF performance_metrics # None THEN performance_metrics[1] ELSE @,
                      !.updated_at = current_timestamp]]

\* The handler update_model as it is written: it stores each provided
\* field in turn (name stands for name, description and version, which are
\* stored first and unchecked) and returns at the first invalid one, with
\* the fields before it already stored in the account it was given.
update_model(model, name, model_hash, accuracy, performance_metrics, current_timestamp) ==
    LET named == IF name # None THEN [model EXCEPT !.name = name[1]] ELSE model
    IN  IF model_hash # None /\ model_hash[1] < MinHashLen
        THEN [result |-> "InvalidModelHash", model |-> named]
        ELSE
        LET hashed == IF model_hash # None
                      THEN [named EXCEPT !.model_hash = model_hash[1]]
                      ELSE named
        IN  IF accuracy # None /\ (accuracy[1] < 0 \/ accuracy[1] > AccScale)
            THEN [result |-> "InvalidAccuracyValue", model |-> hashed]
            ELSE [result |-> "Ok",
                  model |-> [hashed EXCEPT
                      !.accuracy = IF accuracy # None THEN accuracy[1] ELSE @,
                      !.performance_metrics =
                          IF performance_metrics # None THEN performance_metrics[1] ELSE @,
                      !.updated_at = current_timestamp]]

\* The inputs of an UpdateModel instruction.
UpdateInputs ==
    [caller : Wallets, name : UpdateNameInputs, model_hash : UpdateHashInputs,
     accuracy : UpdateAccuracyInputs, performance_metrics : UpdateMetricsInputs]

\* The UpdateModel instruction with inputs a on a Model: the constraint of
\* the context, then the handler, then what the runtime keeps.
UpdateOn(model, a) ==
    IF ~HasOneAuthority(model, a.caller)
    THEN [result |-> "UnauthorizedAccess", model |-> model]
    ELSE LET done == update_model(model, a.name, a.model_hash, a.accuracy,
                                  a.performance_metrics, now)
         IN  [result |-> done.result,
              model |-> Commit(done.result, model, done.model)]

\* An UpdateModel instruction with inputs drawn from the set inputs.
UpdateWith(inputs) ==
    \E m \in DOMAIN models, a \in inputs :
        /\ models' = [models EXCEPT ![m] = UpdateOn(models[m], a).model]
        /\ last' = Outcome("UpdateModel", NoContribution, UpdateOn(models[m], a).result, <<>>)
        /\ UNCHANGED <<now, token, contributions, verifications>>

\* The UpdateModel instructions that provide the two validated fields only.
UpdateCheckedInputs ==
    {a \in UpdateInputs : a.name = None /\ a.performance_metrics = None}

UpdateModelChecked == UpdateWith(UpdateCheckedInputs)

UpdateModel == UpdateWith(UpdateInputs)

\* The new Model starts with the counters and the verification of its
\* parent.
create_derived_model_CopiesStats(parent_key, parent, caller, hash_len, accuracy, current_timestamp) ==
    IF hash_len < MinHashLen
    THEN [result |-> "InvalidModelHash", model |-> None]
    ELSE IF accuracy < 0 \/ accuracy > AccScale
    THEN [result |-> "InvalidAccuracyValue", model |-> None]
    ELSE [result |-> "Ok",
          model |-> Some([NewModel(caller, hash_len, accuracy, current_timestamp)
                             EXCEPT !.parent_model = Some(parent_key),
                                    !.contribution_count = parent.contribution_count,
                                    !.usage_count = parent.usage_count,
                                    !.avg_confidence_score = parent.avg_confidence_score])]

\* create_derived_model: the checks and the record of register_model, with
\* the key of the parent account stored; any signer, any existing parent,
\* whose account is read only.
create_derived_model(parent_key, parent, caller, hash_len, accuracy, current_timestamp) ==
    IF hash_len < MinHashLen
    THEN [result |-> "InvalidModelHash", model |-> None]
    ELSE IF accuracy < 0 \/ accuracy > AccScale
    THEN [result |-> "InvalidAccuracyValue", model |-> None]
    ELSE [result |-> "Ok",
          model |-> Some([NewModel(caller, hash_len, accuracy, current_timestamp)
                             EXCEPT !.parent_model = Some(parent_key)])]

CreateDerivedModel ==
    \E m \in ModelIds, parent \in DOMAIN models, caller \in Wallets,
       hash_len \in HashLens, accuracy \in AccuracyInputs :
        /\ m \notin DOMAIN models
        /\ LET done == create_derived_model(parent, models[parent], caller,
                                            hash_len, accuracy, now)
           IN  /\ models' = IF done.result = "Ok"
                            THEN Create(models, m, done.model[1])
                            ELSE models
               /\ last' = Outcome("CreateDerivedModel", NoContribution, done.result, <<>>)
        /\ UNCHANGED <<now, token, contributions, verifications>>

\* The registry with one model: alice has initialized the token, made
\* ta_alice the treasury and registered m1; m2 is still to be registered or
\* derived.
InitRegistry ==
    /\ now = 1
    /\ token = [t \in TokenIds |->
                   [NewToken("alice", 1000, 1) EXCEPT !.treasury = "ta_alice"]]
    /\ models = Create(<<>>, "m1", NewModel("alice", MinHashLen, 80, 1))
    /\ contributions = <<>>
    /\ verifications = <<>>
    /\ last = Outcome("none", NoContribution, "Ok", <<>>)

NextRegistry ==
    \/ RegisterModel
    \/ CreateDerivedModel
    \/ UpdateModelChecked
    \/ RecordContribution
    \/ ApproveContribution

SpecRegistry == InitRegistry /\ [][NextRegistry]_vars

\* The registry under updates of every field while the clock advances:
\* from the registry with alice's m1, anyone derives m2 from it and anyone
\* submits an UpdateModel for either Model.
NextUpdate ==
    \/ Tick
    \/ CreateDerivedModel
    \/ UpdateModel

SpecUpdate == InitRegistry /\ [][NextUpdate]_vars

\* ---------------------------------------------------- the accuracy blend
\* Every accuracy register_model accepts and every improvement
\* record_contribution accepts: alice has registered m1 with any accuracy in
\* [0,1] and made ta_alice the treasury, bob has registered m2, and carol
\* has recorded c1 for m1 with any improvement in [0,1].
InitBlend ==
    /\ now = 1
    /\ token = [t \in TokenIds |->
                   [NewToken("alice", 1000, 1) EXCEPT !.treasury = "ta_alice"]]
    /\ \E accuracy \in 0..AccScale :
          models = [m \in ModelIds |->
                       IF m = "m1"
                       THEN [NewModel("alice", MinHashLen, accuracy, 1)
                                EXCEPT !.contribution_count = 1]
                       ELSE NewModel("bob", MinHashLen, 80, 1)]
    /\ \E accuracy_improvement \in 0..AccScale :
          contributions = [c \in ContribIds |->
                              NewContribution("m1", "carol", accuracy_improvement,
                                              MinHashLen, 1)]
    /\ verifications = <<>>
    /\ last = Outcome("none", NoContribution, "Ok", <<>>)

\* ApproveContribution as the authority of the recorded model issues it:
\* the recorded model, the treasury of the token record, any recipient.
ApproveByAuthority ==
    \E c \in DOMAIN contributions, a \in ApproveInputs :
        /\ a.m = contributions[c].model
        /\ a.caller = models[a.m].authority
        /\ a.treasury = token[a.t].treasury
        /\ a.reward_amount = 0 => a.cpi_ok
        /\ LET done == Approve(c, a)
           IN  /\ contributions' = [contributions EXCEPT ![c] = done.contribution]
               /\ models' = [models EXCEPT ![a.m] = done.model]
               /\ last' = Outcome("ApproveContribution", c, done.result, done.transfers)
        /\ UNCHANGED <<now, token, verifications>>

NextBlend == ApproveByAuthority

SpecBlend == InitBlend /\ [][NextBlend]_vars

\* ------------------------------------------- token authority and minting
\* The instants at which the clock is read: one second, one second short of
\* an hour, an hour, a day and a day and a second after the start.
ClockInstants == {1, 3600, 3601, 86401, 86402}
MintAmounts == {10}

\* Clock::get()?.unix_timestamp at a later instruction.
Advance ==
    \E later \in ClockInstants :
        /\ later > now
        /\ now' = later
        /\ UNCHANGED <<token, models, contributions, verifications, last>>

\* The timestamp of the first proposal is kept when a proposal is replaced.
propose_authority_transfer_KeepsTimestamp(mdnx_token, caller, new_authority, current_timestamp) ==
    IF mdnx_token.authority # caller
    THEN [result |-> "UnauthorizedAccess", token |-> mdnx_token]
    ELSE [result |-> "Ok",
          token |-> [mdnx_token EXCEPT
                        !.proposed_authority = Some(new_authority),
                        !.authority_proposal_timestamp =
                            IF mdnx_token.proposed_authority = None
                            THEN current_timestamp ELSE @,
                        !.last_update_timestamp = current_timestamp]]

propose_authority_transfer(mdnx_token, caller, new_authority, current_timestamp) ==
    IF mdnx_token.authority # caller
    THEN [result |-> "UnauthorizedAccess", token |-> mdnx_token]
    ELSE [result |-> "Ok",
          token |-> [mdnx_token EXCEPT
                        !.proposed_authority = Some(new_authority),
                        !.authority_proposal_timestamp = current_timestamp,
                        !.last_update_timestamp = current_timestamp]]

ProposeAuthorityTransfer ==
    \E t \in DOMAIN token, caller \in Wallets, new_authority \in Wallets :
        LET done == propose_authority_transfer(token[t], caller, new_authority, now)
        IN  /\ token' = [token EXCEPT ![t] = done.token]
            /\ last' = Outcome("ProposeAuthorityTransfer", NoContribution, done.result, <<>>)
            /\ UNCHANGED <<now, models, contributions, verifications>>

\* A proposal exactly AuthorityTransferWindow old counts as expired.
accept_authority_transfer_StrictWindow(mdnx_token, caller, current_timestamp) ==
    IF mdnx_token.proposed_authority = None
    THEN [result |-> "InvalidAuthorityTransferState", token |-> mdnx_token]
    ELSE IF mdnx_token.proposed_authority[1] # caller
    THEN [result |-> "UnauthorizedAccess", token |-> mdnx_token]
    ELSE IF current_timestamp - mdnx_token.authority_proposal_timestamp >= AuthorityTransferWindow
    THEN [result |-> "AuthorityTransferExpired", token |-> mdnx_token]
    ELSE [result |-> "Ok",
          token |-> [mdnx_token EXCEPT
                        !.authority = mdnx_token.proposed_authority[1],
                        !.proposed_authority = None,
                        !.authority_proposal_timestamp = 0,
                        !.last_update_timestamp = current_timestamp]]

\* The signer is not compared with the proposed authority.
accept_authority_transfer_AnyCaller(mdnx_token, caller, current_timestamp) ==
    IF mdnx_token.proposed_authority = None
    THEN [result |-> "InvalidAuthorityTransferState", token |-> mdnx_token]
    ELSE IF current_timestamp - mdnx_token.authority_proposal_timestamp > AuthorityTransferWindow
    THEN [result |-> "AuthorityTransferExpired", token |-> mdnx_token]
    ELSE [result |-> "Ok",
          token |-> [mdnx_token EXCEPT
                        !.authority = mdnx_token.proposed_authority[1],
                        !.proposed_authority = None,
                        !.authority_proposal_timestamp = 0,
                        !.last_update_timestamp = current_timestamp]]

\* The age of the proposal is checked before the signer.
accept_authority_transfer_ExpiryFirst(mdnx_token, caller, current_timestamp) ==
    IF mdnx_token.proposed_authority = None
    THEN [result |-> "InvalidAuthorityTransferState", token |-> mdnx_token]
    ELSE IF current_timestamp - mdnx_token.authority_proposal_timestamp > AuthorityTransferWindow
    THEN [result |-> "AuthorityTransferExpired", token |-> mdnx_token]
    ELSE IF mdnx_token.proposed_authority[1] # caller
    THEN [result |-> "UnauthorizedAccess", token |-> mdnx_token]
    ELSE [result |-> "Ok",
          token |-> [mdnx_token EXCEPT
                        !.authority = mdnx_token.proposed_authority[1],
                        !.proposed_authority = None,
                        !.authority_proposal_timestamp = 0,
                        !.last_update_timestamp = current_timestamp]]

\* The age of the proposal is not checked.
accept_authority_transfer_NoExpiry(mdnx_token, caller, current_timestamp) ==
    IF mdnx_token.proposed_authority = None
    THEN [result |-> "InvalidAuthorityTransferState", token |-> mdnx_token]
    ELSE IF mdnx_token.proposed_authority[1] # caller
    THEN [result |-> "UnauthorizedAccess", token |-> mdnx_token]
    ELSE [result |-> "Ok",
          token |-> [mdnx_token EXCEPT
                        !.authority = mdnx_token.proposed_authority[1],
                        !.proposed_authority = None,
                        !.authority_proposal_timestamp = 0,
                        !.last_update_timestamp = current_timestamp]]

\* The transfer also restarts the mint interval.
accept_authority_transfer_ResetsMint(mdnx_token, caller, current_timestamp) ==
    IF mdnx_token.proposed_authority = None
    THEN [result |-> "InvalidAuthorityTransferState", token |-> mdnx_token]
    ELSE IF mdnx_token.proposed_authority[1] # caller
    THEN [result |-> "UnauthorizedAccess", token |-> mdnx_token]
    ELSE IF current_timestamp - mdnx_token.authority_proposal_timestamp > AuthorityTransferWindow
    THEN [result |-> "AuthorityTransferExpired", token |-> mdnx_token]
    ELSE [result |-> "Ok",
          token |-> [mdnx_token EXCEPT
                        !.authority = mdnx_token.proposed_authority[1],
                        !.proposed_authority = None,
                        !.authority_proposal_timestamp = 0,
                        !.last_mint_timestamp = 0,
                        !.last_update_timestamp = current_timestamp]]

accept_authority_transfer(mdnx_token, caller, current_timestamp) ==
    IF mdnx_token.proposed_authority = None
    THEN [result |-> "InvalidAuthorityTransferState", token |-> mdnx_token]
    ELSE IF mdnx_token.proposed_authority[1] # caller
    THEN [result |-> "UnauthorizedAccess", token |-> mdnx_token]
    ELSE IF current_timestamp - mdnx_token.authority_proposal_timestamp > AuthorityTransferWindow
    THEN [result |-> "AuthorityTransferExpired", token |-> mdnx_token]
    ELSE [result |-> "Ok",
          token |-> [mdnx_token EXCEPT
                        !.authority = mdnx_token.proposed_authority[1],
                        !.proposed_authority = None,
                        !.authority_proposal_timestamp = 0,
                        !.last_update_timestamp = current_timestamp]]

AcceptAuthorityTransfer ==
    \E t \in DOMAIN token, caller \in Wallets :
        LET done == accept_authority_transfer(token[t], caller, now)
        IN  /\ token' = [token EXCEPT ![t] = done.token]
            /\ last' = Outcome("AcceptAuthorityTransfer", NoContribution, done.result, <<>>)
            /\ UNCHANGED <<now, models, contributions, verifications>>

\* A proposal that has expired is left in place.
cancel_authority_transfer_OnlyFresh(mdnx_token, caller, current_timestamp) ==
    IF mdnx_token.authority # caller
    THEN [result |-> "UnauthorizedAccess", token |-> mdnx_token]
    ELSE IF current_timestamp - mdnx_token.authority_proposal_timestamp > AuthorityTransferWindow
    THEN [result |-> "Ok",
          token |-> [mdnx_token EXCEPT !.last_update_timestamp = current_timestamp]]
    ELSE [result |-> "Ok",
          token |-> [mdnx_token EXCEPT
                        !.proposed_authority = None,
                        !.authority_proposal_timestamp = 0,
                        !.last_update_timestamp = current_timestamp]]

cancel_authority_transfer(mdnx_token, caller, current_timestamp) ==
    IF mdnx_token.authority # caller
    THEN [result |-> "UnauthorizedAccess", token |-> mdnx_token]
    ELSE [result |-> "Ok",
          token |-> [mdnx_token EXCEPT
                        !.proposed_authority = None,
                        !.authority_proposal_timestamp = 0,
                        !.last_update_timestamp = current_timestamp]]

CancelAuthorityTransfer ==
    \E t \in DOMAIN token, caller \in Wallets :
        LET done == cancel_authority_transfer(token[t], caller, now)
        IN  /\ token' = [token EXCEPT ![t] = done.token]
            /\ last' = Outcome("CancelAuthorityTransfer", NoContribution, done.result, <<>>)
            /\ UNCHANGED <<now, models, contributions, verifications>>

\* A mint exactly MintInterval after the last one is still turned down.
mint_tokens_StrictInterval(mdnx_token, caller, amount, cpi_ok, current_timestamp) ==
    IF mdnx_token.authority # caller
    THEN [result |-> "UnauthorizedAccess", token |-> mdnx_token]
    ELSE IF /\ current_timestamp - mdnx_token.last_mint_timestamp <= MintInterval
            /\ mdnx_token.last_mint_timestamp > 0
    THEN [result |-> "RateLimited", token |-> mdnx_token]
    ELSE IF ~cpi_ok
    THEN [result |-> "MintFailed", token |-> mdnx_token]
    ELSE [result |-> "Ok",
          token |-> [mdnx_token EXCEPT
                        !.last_mint_timestamp = current_timestamp,
                        !.last_update_timestamp = current_timestamp]]

\* The timestamps are written before the answer of the token program is
\* looked at, and stay written when it refuses.
mint_tokens_StampOnFailure(mdnx_token, caller, amount, cpi_ok, current_timestamp) ==
    IF mdnx_token.authority # caller
    THEN [result |-> "UnauthorizedAccess", token |-> mdnx_token]
    ELSE IF /\ current_timestamp - mdnx_token.last_mint_timestamp < MintInterval
            /\ mdnx_token.last_mint_timestamp > 0
    THEN [result |-> "RateLimited", token |-> mdnx_token]
    ELSE [result |-> IF cpi_ok THEN "Ok" ELSE "MintFailed",
          token |-> [mdnx_token EXCEPT
                        !.last_mint_timestamp = current_timestamp,
                        !.last_update_timestamp = current_timestamp]]

\* mint_tokens; cpi_ok is the answer of the token program to token::mint_to,
\* which the handler propagates before it writes the timestamps.
mint_tokens(mdnx_token, caller, amount, cpi_ok, current_timestamp) ==
    IF mdnx_token.authority # caller
    THEN [result |-> "UnauthorizedAccess", token |-> mdnx_token]
    ELSE IF /\ current_timestamp - mdnx_token.last_mint_timestamp < MintInterval
            /\ mdnx_token.last_mint_timestamp > 0
    THEN [result |-> "RateLimited", token |-> mdnx_token]
    ELSE IF ~cpi_ok
    THEN [result |-> "MintFailed", token |-> mdnx_token]
    ELSE [result |-> "Ok",
          token |-> [mdnx_token EXCEPT
                        !.last_mint_timestamp = current_timestamp,
                        !.last_update_timestamp = current_timestamp]]

MintTokens ==
    \E t \in DOMAIN token, caller \in Wallets, amount \in MintAmounts,
       cpi_ok \in BOOLEAN :
        LET done == mint_tokens(token[t], caller, amount, cpi_ok, now)
        IN  /\ token' = [token EXCEPT ![t] = done.token]
            /\ last' = Outcome("MintTokens", NoContribution, done.result, <<>>)
            /\ UNCHANGED <<now, models, contributions, verifications>>

NextToken ==
    \/ Advance
    \/ ProposeAuthorityTransfer
    \/ AcceptAuthorityTransfer
    \/ CancelAuthorityTransfer
    \/ MintTokens
    \/ SetTreasury

SpecToken == Init /\ [][NextToken]_vars

\* The whole life of the token record, from before its creation.
NextTokenLife ==
    \/ InitializeToken
    \/ Advance
    \/ ProposeAuthorityTransfer
    \/ AcceptAuthorityTransfer
    \/ CancelAuthorityTransfer
    \/ MintTokens
    \/ SetTreasury

SpecTokenLife == InitEmpty /\ [][NextTokenLife]_vars

\* ======================================================================
\* Properties of the contribution ledger
\* ======================================================================
TerminalOps == {"ApproveContribution", "RejectContribution"}

\* The statuses the data model calls terminal.
TerminalStatuses == {"Approved", "Rejected"}
IsTerminal(c) == contributions[c].status \in TerminalStatuses

\* The model a Contribution was recorded for, and the owner of a Model.
ModelOf(c) == contributions[c].model
AuthorityOf(m) == models[m].authority

\* The inputs that pass the account constraints the instruction contexts
\* state: the recorded model, its authority as signer, the token's treasury.
ApproveInputsInOrder(c) ==
    {a \in ApproveInputs : /\ a.m = ModelOf(c)
                           /\ a.caller = AuthorityOf(a.m)
                           /\ a.treasury = token[a.t].treasury}
RejectInputsInOrder(c) ==
    {a \in RejectInputs : a.caller = AuthorityOf(a.m)}

\* C1: once the status of a Contribution is Approved or Rejected, no step
\* (Review, Approve or Reject, by any caller with any arguments) changes its
\* status or any other of its fields.
C1_TerminalIsFinal ==
    [][\A c \in DOMAIN contributions :
          IsTerminal(c) => contributions'[c] = contributions[c]]_vars

\* C2: in every reachable state, Approve or Reject of a Contribution that is
\* already Approved or Rejected fails and commits nothing: the Contribution
\* and the Model are the same after the call and no transfer is issued,
\* whatever the inputs; and the error of a call whose accounts are in order
\* is ContributionAlreadyProcessed.
C2_ProcessedCallFails ==
    \A c \in DOMAIN contributions :
        IsTerminal(c) =>
            /\ \A a \in ApproveInputs :
                  /\ Approve(c, a).result # "Ok"
                  /\ Approve(c, a).contribution = contributions[c]
                  /\ Approve(c, a).model = models[a.m]
                  /\ Approve(c, a).transfers = <<>>
            /\ \A a \in ApproveInputsInOrder(c) :
                  Approve(c, a).result = "ContributionAlreadyProcessed"
            /\ \A a \in RejectInputs :
                  /\ Reject(c, a).result # "Ok"
                  /\ Reject(c, a).contribution = contributions[c]
            /\ \A a \in RejectInputsInOrder(c) :
                  Reject(c, a).result = "ContributionAlreadyProcessed"

\* An Approve of a Rejected Contribution was turned down by the guard.
C2_Witness ==
    /\ last.op = "ApproveContribution"
    /\ last.result = "ContributionAlreadyProcessed"
    /\ contributions[last.c].status = "Rejected"

\* The approvals that succeed when they run alone on a Contribution that is
\* not processed: accounts in order, and the transfer (if any) goes through.
WinningApprovals(c) ==
    {a \in ApproveInputsInOrder(c) : a.reward_amount = 0 \/ a.cpi_ok}

\* The second of two racing calls loses: the first has succeeded, the second
\* fails with ContributionAlreadyProcessed and leaves what the first wrote.
LosesAfter(first, second) ==
    /\ first.result = "Ok"
    /\ second.result = "ContributionAlreadyProcessed"
    /\ second.contribution = first.contribution

\* C3: when two terminal operations (Approve/Approve, Approve/Reject,
\* Reject/Approve, Reject/Reject), each of which would succeed alone, run
\* one after the other as atomic steps on the same Pending or InReview
\* Contribution, then in either order the first succeeds and the second
\* fails with ContributionAlreadyProcessed; two Approves never both pay and
\* the Model's accuracy is blended once.
C3_RaceHasOneWinner ==
    \A c \in DOMAIN contributions :
        ~IsTerminal(c) =>
            /\ \A a1 \in WinningApprovals(c), a2 \in WinningApprovals(c) :
                  LET first == Approve(c, a1)
                      second == ApproveOn(first.contribution, first.model, a2)
                  IN  /\ LosesAfter(first, second)
                      /\ second.transfers = <<>>
                      /\ second.model = first.model
            /\ \A a1 \in WinningApprovals(c), a2 \in RejectInputsInOrder(c) :
                  LET first == Approve(c, a1)
                      second == RejectOn(first.contribution, a2)
                  IN  LosesAfter(first, second)
            /\ \A a1 \in RejectInputsInOrder(c), a2 \in WinningApprovals(c) :
                  LET first == Reject(c, a1)
                      second == ApproveOn(first.contribution, models[a2.m], a2)
                  IN  /\ LosesAfter(first, second)
                      /\ second.transfers = <<>>
                      /\ second.model = models[a2.m]
            /\ \A a1 \in RejectInputsInOrder(c), a2 \in RejectInputsInOrder(c) :
                  LET first == Reject(c, a1)
                      second == RejectOn(first.contribution, a2)
                  IN  LosesAfter(first, second)

\* A Reject lost the race against an Approve that paid a reward at the same
\* instant.
C3_Witness ==
    /\ last.op = "RejectContribution"
    /\ last.result = "ContributionAlreadyProcessed"
    /\ contributions[last.c].status = "Approved"
    /\ contributions[last.c].processed_at = Some(now)
    /\ contributions[last.c].reward_amount > 0

\* C4: processed_at is none while the status is Pending or InReview, is set
\* to the current time by the step that moves the status to Approved or
\* Rejected, and never changes once it is set.
C4_ProcessedAtWrittenOnce ==
    [][\A c \in DOMAIN contributions' :
          /\ contributions'[c].status \in {"Pending", "InReview"}
                => contributions'[c].processed_at = None
          /\ c \in DOMAIN contributions =>
                /\ (~IsTerminal(c) /\ contributions'[c].status \in TerminalStatuses)
                      => contributions'[c].processed_at = Some(now)
                /\ contributions[c].processed_at # None
                      => contributions'[c].processed_at = contributions[c].processed_at]_vars

\* C5: a Contribution whose status is not Approved has reward_amount = 0.
C5_RewardZeroUnlessApproved ==
    \A c \in DOMAIN contributions :
        contributions[c].status # "Approved" => contributions[c].reward_amount = 0

\* C6: Approve and Reject succeed from Pending and from InReview alike; a
\* successful Approve leaves status = Approved, reward_amount = the argument
\* and processed_at = now; a successful Reject leaves status = Rejected,
\* notes = the reason, processed_at = now and reward_amount = 0.
C6_ApproveAndRejectEffects ==
    \A c \in DOMAIN contributions :
        /\ contributions[c].status \in {"Pending", "InReview"} =>
              /\ \A a \in WinningApprovals(c) : Approve(c, a).result = "Ok"
              /\ \A a \in RejectInputsInOrder(c) : Reject(c, a).result = "Ok"
        /\ \A a \in ApproveInputs :
              Approve(c, a).result = "Ok" =>
                 /\ Approve(c, a).contribution.status = "Approved"
                 /\ Approve(c, a).contribution.reward_amount = a.reward_amount
                 /\ Approve(c, a).contribution.processed_at = Some(now)
        /\ \A a \in RejectInputs :
              Reject(c, a).result = "Ok" =>
                 /\ Reject(c, a).contribution.status = "Rejected"
                 /\ Reject(c, a).contribution.notes = a.rejection_reason
                 /\ Reject(c, a).contribution.processed_at = Some(now)
                 /\ Reject(c, a).contribution.reward_amount = 0

\* C7: in every reachable state (the treasury may have been changed by
\* SetTreasury), a successful Approve with reward_amount > 0 issues exactly
\* one transfer, of exactly reward_amount, out of the treasury stored in the
\* token record; a successful Approve with reward_amount = 0 issues none.
C7_PayoutFromTreasury ==
    \A c \in DOMAIN contributions, a \in ApproveInputs :
        Approve(c, a).result = "Ok" =>
            IF a.reward_amount > 0
            THEN /\ Len(Approve(c, a).transfers) = 1
                 /\ Approve(c, a).transfers[1].amount = a.reward_amount
                 /\ Approve(c, a).transfers[1].from = token[a.t].treasury
            ELSE Approve(c, a).transfers = <<>>

\* An Approve has paid 5 out of the treasury that SetTreasury had moved to
\* carol's token account.
C7_Witness ==
    /\ last.op = "ApproveContribution"
    /\ last.result = "Ok"
    /\ Len(last.transfers) = 1
    /\ last.transfers[1].amount = 5
    /\ last.transfers[1].from = "ta_carol"
    /\ \A t \in DOMAIN token : token[t].treasury = "ta_carol"

\* C8: the recipient of the payout of a successful Approve is the
\* contributor recorded in the Contribution, whatever account the approving
\* caller supplies.
C8_PayoutToContributor ==
    \A c \in DOMAIN contributions, a \in ApproveInputs :
        Approve(c, a).result = "Ok" =>
            \A i \in DOMAIN Approve(c, a).transfers :
                TaOwner[Approve(c, a).transfers[i].to] = contributions[c].contributor

\* C9: Approve and Reject succeed only for a caller who is the authority of
\* the Model the Contribution references.
C9_OnlyAuthorityOfRecordedModel ==
    \A c \in DOMAIN contributions :
        /\ \A a \in ApproveInputs :
              Approve(c, a).result = "Ok" => a.caller = AuthorityOf(ModelOf(c))
        /\ \A a \in RejectInputs :
              Reject(c, a).result = "Ok" => a.caller = AuthorityOf(ModelOf(c))

\* C10: Approve with a Model other than the one recorded in the Contribution
\* fails with ModelMismatch, leaves the Contribution and the supplied Model
\* (its accuracy included) as they were and issues no transfer.
C10_ModelMismatchRejected ==
    \A c \in DOMAIN contributions, a \in ApproveInputs :
        a.m # ModelOf(c) =>
            /\ Approve(c, a).result = "ModelMismatch"
            /\ Approve(c, a).contribution = contributions[c]
            /\ Approve(c, a).model = models[a.m]
            /\ Approve(c, a).transfers = <<>>

\* An Approve that named the wrong Model was turned down.
C10_Witness ==
    /\ last.op = "ApproveContribution"
    /\ last.result = "ModelMismatch"
    /\ last.transfers = <<>>

\* C11: when the token transfer asked for by Approve fails, the Approve
\* fails and commits nothing: it returns an error (TransferFailed when the
\* call was valid otherwise), the Contribution keeps its status,
\* reward_amount and processed_at, the Model keeps its accuracy and no
\* transfer is recorded.
C11_FailedTransferCommitsNothing ==
    \A c \in DOMAIN contributions :
        /\ \A a \in ApproveInputs :
              (a.reward_amount > 0 /\ ~a.cpi_ok) =>
                  /\ Approve(c, a).result # "Ok"
                  /\ Approve(c, a).contribution = contributions[c]
                  /\ Approve(c, a).model = models[a.m]
                  /\ Approve(c, a).transfers = <<>>
        /\ ~IsTerminal(c) =>
              \A a \in ApproveInputsInOrder(c) :
                  (a.reward_amount > 0 /\ ~a.cpi_ok) =>
                      Approve(c, a).result = "TransferFailed"

\* An Approve with a reward has failed in the transfer and the Contribution
\* is still unprocessed, the Model still at its registered accuracy.
C11_Witness ==
    /\ last.op = "ApproveContribution"
    /\ last.result = "TransferFailed"
    /\ contributions[last.c].status \in {"Pending", "InReview"}
    /\ contributions[last.c].reward_amount = 0
    /\ contributions[last.c].processed_at = None
    /\ contributions[last.c].accuracy_improvement > 0
    /\ models[contributions[last.c].model].accuracy = 80

\* ======================================================================
\* Properties of the accuracy blend
\* ======================================================================
\* C12: for every Model accuracy old in [0,1] and every Contribution with
\* accuracy_improvement in (0,1], a successful Approve leaves the Model with
\* an accuracy new such that old <= new <= 1; no Approve, successful or not,
\* leaves a Model with less accuracy than it had.
C12_BlendIsMonotone ==
    \A c \in DOMAIN contributions, a \in ApproveInputs :
        /\ Approve(c, a).model.accuracy >= models[a.m].accuracy
        /\ (/\ Approve(c, a).result = "Ok"
            /\ models[a.m].accuracy \in 0..AccScale
            /\ contributions[c].accuracy_improvement \in 1..AccScale)
           => /\ models[a.m].accuracy <= Approve(c, a).model.accuracy
              /\ Approve(c, a).model.accuracy <= AccScale

\* An Approve has raised an accuracy that started strictly between 0 and 1
\* and left it strictly below 1.
C12_Witness ==
    /\ last.op = "ApproveContribution"
    /\ last.result = "Ok"
    /\ contributions[last.c].accuracy_improvement \in 1..(AccScale - 1)
    /\ models[contributions[last.c].model].accuracy \in 2..(AccScale - 1)
    /\ contributions[last.c].status = "Approved"

\* old + improvement * (1 - old), capped at 1, in units of 1 / AccScale^2.
ExactBlend(accuracy, accuracy_improvement) ==
    LET exact == accuracy * AccScale + accuracy_improvement * (AccScale - accuracy)
    IN  IF exact > AccScale * AccScale THEN AccScale * AccScale ELSE exact

\* n is the step nearest to the exact value x (x in units of 1 / AccScale^2).
IsNearestStep(n, x) ==
    /\ 2 * (n * AccScale - x) <= AccScale
    /\ 2 * (x - n * AccScale) <= AccScale

\* C13: a successful Approve sets the Model's accuracy to
\* min(1, old + accuracy_improvement * (1 - old)) for the
\* accuracy_improvement stored in the Contribution (exactly when that value
\* is a step of the scale, else the nearest step), and leaves the accuracy
\* unchanged when accuracy_improvement = 0 and whenever it fails; accuracy
\* 0.80 with improvement 0.50 becomes 0.90.
C13_BlendFormula ==
    \A c \in DOMAIN contributions, a \in ApproveInputs :
        LET old == models[a.m].accuracy
            imp == contributions[c].accuracy_improvement
            new == Approve(c, a).model.accuracy
        IN  /\ Approve(c, a).result = "Ok" =>
                 /\ IsNearestStep(new, ExactBlend(old, imp))
                 /\ imp = 0 => new = old
                 /\ (old = 80 /\ imp = 50) => new = 90
            /\ Approve(c, a).result # "Ok" => new = old

\* The Model registered at 0.80 stands at 0.90 after the Approve of a
\* Contribution with improvement 0.50.
C13_Witness ==
    /\ last.op = "ApproveContribution"
    /\ last.result = "Ok"
    /\ contributions[last.c].accuracy_improvement = 50
    /\ contributions[last.c].status = "Approved"
    /\ models[contributions[last.c].model].accuracy = 90
    /\ models[contributions[last.c].model].contribution_count = 1

\* ---------------------------------------------------------- model usage
\* The most usages the model counts on one Model.
MaxUsage == 3

RECURSIVE Factorial(_)
Factorial(n) == IF n = 0 THEN 1 ELSE n * Factorial(n - 1)

\* avg_confidence_score is held in units of 1 / UsageScale, a multiple of
\* AccScale fine enough that the mean of up to MaxUsage scores is a whole
\* number of units.
UsageScale == AccScale * Factorial(MaxUsage)

\* A confidence score (in units of 1 / AccScale) as an average.
AsAverage(confidence_score) == confidence_score * (UsageScale \div AccScale)

\* The quotient x / d of two non-negative numbers, rounded to the nearest
\* unit.
RoundDiv(x, d) == (2 * x + d) \div (2 * d)

\* Confidence scores: 0, 0.5, 1, and below and above the range.
ConfidenceScores == {0 - 1, 0, 50, 100, 101}

\* The new average is the mean of the old average and the new score.
record_usage_Unweighted(model, confidence_score, current_timestamp) ==
    IF confidence_score < 0 \/ confidence_score > AccScale
    THEN [result |-> "InvalidConfidenceScore", model |-> model]
    ELSE LET usage_count == model.usage_count + 1
             old_avg == model.avg_confidence_score
             old_count == usage_count - 1
         IN  [result |-> "Ok",
              model |-> [model EXCEPT
                  !.usage_count = usage_count,
                  !.avg_confidence_score =
                      IF old_count = 0
                      THEN AsAverage(confidence_score)
                      ELSE RoundDiv(old_avg + AsAverage(confidence_score), 2),
                  !.updated_at = current_timestamp]]

\* record_usage: the result and the Model it leaves.
record_usage(model, confidence_score, current_timestamp) ==
    IF confidence_score < 0 \/ confidence_score > AccScale
    THEN [result |-> "InvalidConfidenceScore", model |-> model]
    ELSE LET usage_count == model.usage_count + 1
             old_avg == model.avg_confidence_score
             old_count == usage_count - 1
         IN  [result |-> "Ok",
              model |-> [model EXCEPT
                  !.usage_count = usage_count,
                  !.avg_confidence_score =
                      IF old_count = 0
                      THEN AsAverage(confidence_score)
                      ELSE RoundDiv(old_avg * old_count + AsAverage(confidence_score),
                                    usage_count),
                  !.updated_at = current_timestamp]]

\* Any signer records a usage of any Model (at most MaxUsage are counted
\* on one Model).
RecordUsage ==
    \E m \in DOMAIN models, user \in Wallets, confidence_score \in ConfidenceScores :
        LET done == record_usage(models[m], confidence_score, now)
        IN  /\ done.result = "Ok" => models[m].usage_count < MaxUsage
            /\ models' = [models EXCEPT ![m] = done.model]
            /\ last' = Outcome("RecordUsage", NoContribution, done.result, <<>>)
            /\ UNCHANGED <<now, token, contributions, verifications>>

\* The registry under usage: from the registry with alice's m1, anyone
\* registers m2 and anyone records usages of either Model while the clock
\* advances.
NextUsage ==
    \/ Tick
    \/ RegisterModel
    \/ RecordUsage

SpecUsage == InitRegistry /\ [][NextUsage]_vars

\* ------------------------------------------------------- verification.rs
VerificationIds == {"v1", "v2"}
Verifiers == {"bob", "carol"}

\* A verification method: empty, or not.
VerificationMethods == {"", "expert panel"}

EntryPoints == {"VerifyData", "VerifyAnalysis", "VerifyModelOutput", "ExpertVerification"}

\* The Verification every entry point writes, apart from its type.
NewVerification(verification_type, model_key, verifier, hash_len, verification_method, confidence_score, current_timestamp) ==
    [verification_type |-> verification_type,
     data_hash |-> hash_len,
     verification_method |-> verification_method,
     confidence_score |-> confidence_score,
     verifier |-> verifier,
     model |-> model_key,
     created_at |-> current_timestamp]

\* The handler adds 2 to verification_count.
Counted_Twice(model) ==
    IF model = None THEN None
    ELSE Some([model[1] EXCEPT !.verification_count = @ + 2])

\* The Model account the handler holds after `verification_count += 1`, if
\* it was given one.
Counted(model) ==
    IF model = None THEN None
    ELSE Some([model[1] EXCEPT !.verification_count = @ + 1])

\* verify_data: the result, the Verification it leaves in the new account
\* (none when it fails) and the Model account as the handler leaves it in
\* memory.  model_key and model are the optional Model account (both none
\* when it is not supplied).
verify_data(model_key, model, verifier, hash_len, verification_method, confidence_score, current_timestamp) ==
    IF hash_len < MinHashLen
    THEN [result |-> "InvalidDataHash", verification |-> None, model |-> model]
    ELSE IF verification_method = ""
    THEN [result |-> "InvalidVerificationMethod", verification |-> None, model |-> model]
    ELSE IF confidence_score < 0 \/ confidence_score > AccScale
    THEN [result |-> "InvalidConfidenceScore", verification |-> None, model |-> model]
    ELSE [result |-> "Ok",
          verification |-> Some(NewVerification("MedicalData", model_key, verifier,
                               hash_len, verification_method, confidence_score,
                               current_timestamp)),
          model |-> Counted(model)]

verify_analysis(model_key, model, verifier, hash_len, verification_method, confidence_score, current_timestamp) ==
    IF hash_len < MinHashLen
    THEN [result |-> "InvalidDataHash", verification |-> None, model |-> model]
    ELSE IF verification_method = ""
    THEN [result |-> "InvalidVerificationMethod", verification |-> None, model |-> model]
    ELSE IF confidence_score < 0 \/ confidence_score > AccScale
    THEN [result |-> "InvalidConfidenceScore", verification |-> None, model |-> model]
    ELSE [result |-> "Ok",
          verification |-> Some(NewVerification("AnalysisResult", model_key, verifier,
                               hash_len, verification_method, confidence_score,
                               current_timestamp)),
          model |-> Counted(model)]

\* The confidence score is checked before the hash and the method.
verify_model_output_ScoreFirst(model_key, model, verifier, hash_len, verification_method, confidence_score, current_timestamp) ==
    IF confidence_score < 0 \/ confidence_score > AccScale
    THEN [result |-> "InvalidConfidenceScore", verification |-> None, model |-> model]
    ELSE IF hash_len < MinHashLen
    THEN [result |-> "InvalidDataHash", verification |-> None, model |-> model]
    ELSE IF verification_method = ""
    THEN [result |-> "InvalidVerificationMethod", verification |-> None, model |-> model]
    ELSE [result |-> "Ok",
          verification |-> Some(NewVerification("ModelOutput", model_key, verifier,
                               hash_len, verification_method, confidence_score,
                               current_timestamp)),
          model |-> Counted(model)]

\* verify_model_output: its Model account is not optional.
verify_model_output(model_key, model, verifier, hash_len, verification_method, confidence_score, current_timestamp) ==
    IF hash_len < MinHashLen
    THEN [result |-> "InvalidDataHash", verification |-> None, model |-> model]
    ELSE IF verification_method = ""
    THEN [result |-> "InvalidVerificationMethod", verification |-> None, model |-> model]
    ELSE IF confidence_score < 0 \/ confidence_score > AccScale
    THEN [result |-> "InvalidConfidenceScore", verification |-> None, model |-> model]
    ELSE [result |-> "Ok",
          verification |-> Some(NewVerification("ModelOutput", model_key, verifier,
                               hash_len, verification_method, confidence_score,
                               current_timestamp)),
          model |-> Counted(model)]

\* The scores 0 and 1 themselves are refused.
expert_verification_ExclusiveBounds(model_key, model, verifier, hash_len, verification_method, confidence_score, current_timestamp) ==
    IF hash_len < MinHashLen
    THEN [result |-> "InvalidDataHash", verification |-> None, model |-> model]
    ELSE IF verification_method = ""
    THEN [result |-> "InvalidVerificationMethod", verification |-> None, model |-> model]
    ELSE IF confidence_score <= 0 \/ confidence_score >= AccScale
    THEN [result |-> "InvalidConfidenceScore", verification |-> None, model |-> model]
    ELSE [result |-> "Ok",
          verification |-> Some(NewVerification("ExpertReview", model_key, verifier,
                               hash_len, verification_method, confidence_score,
                               current_timestamp)),
          model |-> Counted(model)]

expert_verification(model_key, model, verifier, hash_len, verification_method, confidence_score, current_timestamp) ==
    IF hash_len < MinHashLen
    THEN [result |-> "InvalidDataHash", verification |-> None, model |-> model]
    ELSE IF verification_method = ""
    THEN [result |-> "InvalidVerificationMethod", verification |-> None, model |-> model]
    ELSE IF confidence_score < 0 \/ confidence_score > AccScale
    THEN [result |-> "InvalidConfidenceScore", verification |-> None, model |-> model]
    ELSE [result |-> "Ok",
          verification |-> Some(NewVerification("ExpertReview", model_key, verifier,
                               hash_len, verification_method, confidence_score,
                               current_timestamp)),
          model |-> Counted(model)]

\* Whether the context of an entry point declares its Model account
\* #[account(mut)]: VerifyModelOutput does, VerifyData, VerifyAnalysis and
\* ExpertVerification declare it without mut.
ModelIsMut(entry) == entry = "VerifyModelOutput"

\* What is stored of an account when the instruction returns Ok: an account
\* declared mut is written back as the handler left it, any other account
\* keeps its stored data.
WrittenBack(is_mut, before, after) == IF is_mut THEN after ELSE before

\* The Model accounts an entry point can be given: any Model, or none where
\* the account is optional (it is required for VerifyModelOutput).
\* VerifyInputs: the inputs of an entry point, that account, the signer and
\* the three validated arguments.
ModelArgs(entry) ==
    {Some(m) : m \in DOMAIN models}
        \cup (IF entry = "VerifyModelOutput" THEN {} ELSE {None})

VerifyInputs(entry) ==
    [model : ModelArgs(entry),
     verifier : Verifiers,
     hash_len : HashLens,
     verification_method : VerificationMethods,
     confidence_score : ConfidenceScores]

\* The handler of an entry point on inputs a.
Handled(entry, a) ==
    LET model == IF a.model = None THEN None ELSE Some(models[a.model[1]])
    IN  CASE entry = "VerifyData" ->
               verify_data(a.model, model, a.verifier, a.hash_len,
                           a.verification_method, a.confidence_score, now)
          [] entry = "VerifyAnalysis" ->
               verify_analysis(a.model, model, a.verifier, a.hash_len,
                               a.verification_method, a.confidence_score, now)
          [] entry = "VerifyModelOutput" ->
               verify_model_output(a.model, model, a.verifier, a.hash_len,
                                   a.verification_method, a.confidence_score, now)
          [] entry = "ExpertVerification" ->
               expert_verification(a.model, model, a.verifier, a.hash_len,
                                   a.verification_method, a.confidence_score, now)

\* The models after the instruction of an entry point on inputs a.
ModelsAfter(entry, a) ==
    LET done == Handled(entry, a)
    IN  IF done.result = "Ok" /\ a.model # None
        THEN [models EXCEPT ![a.model[1]] =
                 WrittenBack(ModelIsMut(entry), models[a.model[1]], done.model[1])]
        ELSE models

\* The instruction of an entry point on inputs a, creating the Verification
\* account v.
Verify(entry, v, a) ==
    /\ v \notin DOMAIN verifications
    /\ verifications' = IF Handled(entry, a).result = "Ok"
                        THEN Create(verifications, v, Handled(entry, a).verification[1])
                        ELSE verifications
    /\ models' = ModelsAfter(entry, a)
    /\ last' = Outcome(entry, NoContribution, Handled(entry, a).result, <<>>)
    /\ UNCHANGED <<now, token, contributions>>

VerifyData ==
    \E v \in VerificationIds, a \in VerifyInputs("VerifyData") :
        Verify("VerifyData", v, a)

VerifyAnalysis ==
    \E v \in VerificationIds, a \in VerifyInputs("VerifyAnalysis") :
        Verify("VerifyAnalysis", v, a)

VerifyModelOutput ==
    \E v \in VerificationIds, a \in VerifyInputs("VerifyModelOutput") :
        Verify("VerifyModelOutput", v, a)

ExpertVerification ==
    \E v \in VerificationIds, a \in VerifyInputs("ExpertVerification") :
        Verify("ExpertVerification", v, a)

\* Verification alone: on the two registered Models, bob and carol call the
\* four entry points.
NextVerify ==
    \/ VerifyData
    \/ VerifyAnalysis
    \/ VerifyModelOutput
    \/ ExpertVerification

SpecVerify == Init /\ [][NextVerify]_vars

\* The three counters of a Model together: from the registry with alice's
\* m1, carol records a contribution, anyone records usages, and bob and
\* carol verify its output.
NextCounters ==
    \/ RecordContribution
    \/ RecordUsage
    \/ VerifyModelOutput

SpecCounters == InitRegistry /\ [][NextCounters]_vars

\* ---------------------------------------------- the contribution ledger
\* The addresses at which Contribution accounts are created when several
\* contributions are recorded.
LedgerIds == {"c1", "c2"}
LedgerImprovements == {50, 101}

\* RecordContribution with a fresh Contribution account at any address of
\* the ledger; the init constraint refuses an account that exists.
RecordInLedger ==
    \E c \in LedgerIds, m \in DOMAIN models, contributor \in Contributors,
       accuracy_improvement \in LedgerImprovements, hash_len \in HashLens :
        /\ c \notin DOMAIN contributions
        /\ LET done == record_contribution(m, models[m], contributor,
                                           accuracy_improvement, hash_len, now)
           IN  /\ contributions' = IF done.result = "Ok"
                                   THEN Create(contributions, c, done.contribution[1])
                                   ELSE contributions
               /\ models' = [models EXCEPT ![m] = done.model]
               /\ last' = Outcome("RecordContribution", c, done.result, <<>>)
        /\ UNCHANGED <<now, token, verifications>>

\* The ledger of contributions: from the registry with alice's m1, models
\* are registered and contributions are recorded, reviewed by anyone,
\* approved by the authority of their model and rejected.
NextLedger ==
    \/ RegisterModel
    \/ RecordInLedger
    \/ ReviewContribution
    \/ ApproveByAuthority
    \/ RejectContribution

SpecLedger == InitRegistry /\ [][NextLedger]_vars

\* ======================================================================
\* Properties of the model registry
\* ======================================================================
\* C14: in every state reached by Register, Derive, Update, Record and
\* Approve, every Model has an accuracy in [0,1] and a content hash of at
\* least 16 characters.
C14_ModelsStayValid ==
    \A m \in DOMAIN models :
        /\ models[m].accuracy >= 0
        /\ models[m].accuracy <= AccScale
        /\ models[m].model_hash >= MinHashLen

\* An Update has just replaced an accuracy, where a derived Model exists
\* and an Approve has blended an improvement into a Model.
C14_Witness ==
    /\ last.op = "UpdateModel"
    /\ last.result = "Ok"
    /\ \E m \in DOMAIN models : models[m].accuracy = 0 /\ models[m].updated_at = now
    /\ \E m \in DOMAIN models : models[m].parent_model # None
    /\ \E c \in DOMAIN contributions :
          /\ contributions[c].status = "Approved"
          /\ contributions[c].accuracy_improvement > 0

\* ======================================================================
\* Properties of the token authority and of minting
\* ======================================================================
\* The instants from now on.
FromNow == {later \in ClockInstants : later >= now}

\* C15: after Propose(B) by the current authority at time t, Accept by B at
\* any time with now - t <= 86400 succeeds and leaves authority = B and
\* proposed_authority = none; Accept by B at now - t >= 86401 fails with
\* AuthorityTransferExpired and leaves the record, authority included, as
\* it was.  Stated for a Propose made now and accepted at every later
\* instant, and for the proposal outstanding in the current state.
C15_AcceptWithinWindow ==
    \A t \in DOMAIN token :
        /\ \A B \in Wallets, later \in FromNow :
              LET proposed == propose_authority_transfer(token[t], token[t].authority, B, now)
                  accepted == accept_authority_transfer(proposed.token, B, later)
              IN  /\ proposed.result = "Ok"
                  /\ IF later - now <= 86400
                     THEN /\ accepted.result = "Ok"
                          /\ accepted.token.authority = B
                          /\ accepted.token.proposed_authority = None
                     ELSE /\ accepted.result = "AuthorityTransferExpired"
                          /\ accepted.token = proposed.token
                          /\ accepted.token.authority = token[t].authority
        /\ token[t].proposed_authority # None =>
              LET B == token[t].proposed_authority[1]
                  accepted == accept_authority_transfer(token[t], B, now)
              IN  IF now - token[t].authority_proposal_timestamp <= 86400
                  THEN /\ accepted.result = "Ok"
                       /\ accepted.token.authority = B
                       /\ accepted.token.proposed_authority = None
                  ELSE /\ accepted.result = "AuthorityTransferExpired"
                       /\ accepted.token = token[t]

\* bob has accepted, a day after the start, the authority alice proposed.
C15_Witness ==
    /\ last.op = "AcceptAuthorityTransfer"
    /\ last.result = "Ok"
    /\ now = 86401
    /\ \A t \in DOMAIN token :
          /\ token[t].authority = "bob"
          /\ token[t].proposed_authority = None
          /\ token[t].last_update_timestamp = now

\* C16: the authority of the token record changes only in a successful
\* Accept: in every step that changes it from A to B the step is an Accept
\* that returned Ok, B was the proposed authority before the step and the
\* proposal was at most 86400 seconds old; an Accept changes it only for
\* the caller B; Propose, Cancel and Mint, whoever calls them, leave it.
C16_AuthorityChangesOnlyByAccept ==
    [][\A t \in DOMAIN token :
          /\ token'[t].authority # token[t].authority =>
                /\ last'.op = "AcceptAuthorityTransfer"
                /\ last'.result = "Ok"
                /\ token[t].proposed_authority = Some(token'[t].authority)
                /\ now - token[t].authority_proposal_timestamp <= 86400
          /\ \A caller \in Wallets :
                /\ accept_authority_transfer(token[t], caller, now).token.authority
                       # token[t].authority
                   => /\ token[t].proposed_authority = Some(caller)
                      /\ accept_authority_transfer(token[t], caller, now).token.authority
                             = caller
                /\ \A B \in Wallets :
                      propose_authority_transfer(token[t], caller, B, now).token.authority
                          = token[t].authority
                /\ cancel_authority_transfer(token[t], caller, now).token.authority
                       = token[t].authority
                /\ \A amount \in MintAmounts, cpi_ok \in BOOLEAN :
                      mint_tokens(token[t], caller, amount, cpi_ok, now).token.authority
                          = token[t].authority]_vars

\* The authority has passed from alice to carol by an Accept.
C16_Witness ==
    /\ last.op = "AcceptAuthorityTransfer"
    /\ last.result = "Ok"
    /\ \A t \in DOMAIN token :
          /\ token[t].authority = "carol"
          /\ token[t].authority_proposal_timestamp = 0

\* C17: Accept fails and leaves the token record unchanged, with
\* InvalidAuthorityTransferState when no proposal is outstanding, with
\* UnauthorizedAccess when there is one and the caller is not the proposed
\* authority (expired or not), and with AuthorityTransferExpired when the
\* caller is the proposed authority and the proposal is more than 86400
\* seconds old.
C17_AcceptErrorsInOrder ==
    \A t \in DOMAIN token, caller \in Wallets :
        LET accepted == accept_authority_transfer(token[t], caller, now)
            age == now - token[t].authority_proposal_timestamp
        IN  /\ token[t].proposed_authority = None
                  => accepted.result = "InvalidAuthorityTransferState"
            /\ (token[t].proposed_authority # None
                /\ token[t].proposed_authority # Some(caller))
                  => accepted.result = "UnauthorizedAccess"
            /\ (token[t].proposed_authority = Some(caller) /\ age > 86400)
                  => accepted.result = "AuthorityTransferExpired"
            /\ accepted.result # "Ok" => accepted.token = token[t]

\* An Accept from someone other than the proposed authority was turned
\* down as unauthorized although the proposal had expired.
C17_Witness ==
    /\ last.op = "AcceptAuthorityTransfer"
    /\ last.result = "UnauthorizedAccess"
    /\ \A t \in DOMAIN token :
          /\ token[t].proposed_authority # None
          /\ now - token[t].authority_proposal_timestamp > 86400

\* C18: Propose from anyone but the current authority fails with
\* UnauthorizedAccess and changes nothing; after Propose(B) and then
\* Propose(C) by the authority, Accept by B fails and Accept by C succeeds
\* within 86400 seconds of the second proposal; the record holds at most
\* one proposal.
C18_ProposalOverwrites ==
    \A t \in DOMAIN token :
        /\ Len(token[t].proposed_authority) <= 1
        /\ \A caller \in Wallets \ {token[t].authority}, B \in Wallets :
              /\ propose_authority_transfer(token[t], caller, B, now).result
                     = "UnauthorizedAccess"
              /\ propose_authority_transfer(token[t], caller, B, now).token = token[t]
        /\ \A B \in Wallets, C \in Wallets, t2 \in FromNow :
              B # C =>
                 LET A == token[t].authority
                     first == propose_authority_transfer(token[t], A, B, now)
                     second == propose_authority_transfer(first.token, A, C, t2)
                 IN  /\ first.result = "Ok"
                     /\ second.result = "Ok"
                     /\ second.token.proposed_authority = Some(C)
                     /\ \A t3 \in {later \in ClockInstants : later >= t2} :
                           /\ accept_authority_transfer(second.token, B, t3).result
                                  = "UnauthorizedAccess"
                           /\ accept_authority_transfer(second.token, B, t3).token
                                  = second.token
                           /\ t3 - t2 <= 86400 =>
                                 /\ accept_authority_transfer(second.token, C, t3).result
                                        = "Ok"
                                 /\ accept_authority_transfer(second.token, C, t3).token.authority
                                        = C

\* carol's proposal, made one second short of an hour after the start, is
\* the one outstanding a day and a second after the start, still within its
\* window; an Accept by someone else has just been refused.
C18_Witness ==
    /\ last.op = "AcceptAuthorityTransfer"
    /\ last.result = "UnauthorizedAccess"
    /\ now = 86402
    /\ \A t \in DOMAIN token :
          /\ token[t].authority = "alice"
          /\ token[t].proposed_authority = Some("carol")
          /\ token[t].authority_proposal_timestamp = 3600
          /\ now - token[t].authority_proposal_timestamp <= 86400

\* C19: Cancel from anyone but the current authority fails with
\* UnauthorizedAccess and changes nothing; from the authority it succeeds
\* whatever the age of the proposal, and when there is none, and leaves no
\* proposal and the same authority; after it every Accept, by anyone at any
\* later instant, fails with InvalidAuthorityTransferState; and a proposal
\* appears only by a successful Propose.
C19_CancelClearsProposal ==
    [][\A t \in DOMAIN token :
          /\ \A caller \in Wallets :
                LET cancelled == cancel_authority_transfer(token[t], caller, now)
                IN  IF caller # token[t].authority
                    THEN /\ cancelled.result = "UnauthorizedAccess"
                         /\ cancelled.token = token[t]
                    ELSE /\ cancelled.result = "Ok"
                         /\ cancelled.token.proposed_authority = None
                         /\ cancelled.token.authority = token[t].authority
                         /\ \A B \in Wallets, later \in FromNow :
                               /\ accept_authority_transfer(cancelled.token, B, later).result
                                      = "InvalidAuthorityTransferState"
                               /\ accept_authority_transfer(cancelled.token, B, later).token
                                      = cancelled.token
          /\ (token[t].proposed_authority = None /\ token'[t].proposed_authority # None)
                => /\ last'.op = "ProposeAuthorityTransfer"
                   /\ last'.result = "Ok"]_vars

\* The last write to the token record was a Cancel at the current instant
\* (nothing is proposed, alice is still the authority, nothing was minted
\* and the treasury was never set), and an Accept after it has been refused
\* for want of a proposal.
C19_Witness ==
    /\ last.op = "AcceptAuthorityTransfer"
    /\ last.result = "InvalidAuthorityTransferState"
    /\ now = 86402
    /\ \A t \in DOMAIN token :
          /\ token[t].proposed_authority = None
          /\ token[t].last_update_timestamp = now
          /\ token[t].authority = "alice"
          /\ token[t].last_mint_timestamp = 0
          /\ token[t].treasury = "alice"

\* C20: last_mint_timestamp changes only in a successful MintTokens, which
\* sets it to the current time and happens only when the previous
\* successful mint, if there was one, is at least 3600 seconds back; so any
\* two successful mints are at least 3600 seconds apart.  A mint by the
\* authority less than 3600 seconds after the previous successful one fails
\* with RateLimited; at 3600 seconds or more it succeeds when the token
\* program performs it.
C20_MintRateLimited ==
    [][\A t \in DOMAIN token :
          /\ token[t].last_mint_timestamp >= 0
          /\ token[t].last_mint_timestamp <= now
          /\ token'[t].last_mint_timestamp # token[t].last_mint_timestamp =>
                /\ last'.op = "MintTokens"
                /\ last'.result = "Ok"
                /\ token'[t].last_mint_timestamp = now
                /\ (token[t].last_mint_timestamp > 0
                       => now - token[t].last_mint_timestamp >= 3600)
          /\ (last'.op = "MintTokens" /\ last'.result = "Ok" /\ now' = now)
                => token'[t].last_mint_timestamp = now
          /\ \A amount \in MintAmounts, later \in FromNow :
                LET first == mint_tokens(token[t], token[t].authority, amount, TRUE, now)
                    second == mint_tokens(first.token, token[t].authority, amount, TRUE, later)
                IN  first.result = "Ok" =>
                       IF later - now < 3600
                       THEN second.result = "RateLimited" /\ second.token = first.token
                       ELSE second.result = "Ok"
          /\ \A amount \in MintAmounts :
                LET minted == mint_tokens(token[t], token[t].authority, amount, TRUE, now)
                IN  IF token[t].last_mint_timestamp > 0
                       /\ now - token[t].last_mint_timestamp < 3600
                    THEN minted.result = "RateLimited" /\ minted.token = token[t]
                    ELSE minted.result = "Ok"]_vars

\* A mint 3599 seconds after the previous successful one was turned down.
C20_Witness ==
    /\ last.op = "MintTokens"
    /\ last.result = "RateLimited"
    /\ \A t \in DOMAIN token :
          /\ token[t].last_mint_timestamp > 0
          /\ now - token[t].last_mint_timestamp = 3599

\* C21: last_mint_timestamp changes only in a successful MintTokens step,
\* where it becomes the current time; a MintTokens that fails, with
\* UnauthorizedAccess, with RateLimited or because the token program
\* refused the mint, leaves the whole token record unchanged; a caller who
\* is not the authority always gets UnauthorizedAccess, whatever the token
\* program would have answered.
C21_FailedMintChangesNothing ==
    [][\A t \in DOMAIN token :
          /\ token'[t].last_mint_timestamp # token[t].last_mint_timestamp =>
                /\ last'.op = "MintTokens"
                /\ last'.result = "Ok"
                /\ token'[t].last_mint_timestamp = now
          /\ (last'.op = "MintTokens" /\ last'.result # "Ok" /\ now' = now)
                => token'[t] = token[t]
          /\ \A caller \in Wallets, amount \in MintAmounts, cpi_ok \in BOOLEAN :
                LET minted == mint_tokens(token[t], caller, amount, cpi_ok, now)
                IN  /\ minted.result \in {"Ok", "UnauthorizedAccess",
                                          "RateLimited", "MintFailed"}
                    /\ minted.result # "Ok" => minted.token = token[t]
                    /\ minted.result = "Ok" =>
                          /\ minted.token.last_mint_timestamp = now
                          /\ caller = token[t].authority
                          /\ cpi_ok
                    /\ caller # token[t].authority
                          => minted.result = "UnauthorizedAccess"
                    /\ (caller = token[t].authority /\ ~cpi_ok)
                          => minted.result \in {"RateLimited", "MintFailed"}]_vars

\* The token program has refused a mint that the cooldown allowed, and the
\* time of the previous successful mint is still the one recorded.
C21_Witness ==
    /\ last.op = "MintTokens"
    /\ last.result = "MintFailed"
    /\ \A t \in DOMAIN token :
          /\ token[t].last_mint_timestamp > 0
          /\ now - token[t].last_mint_timestamp >= 3600

\* ======================================================================
\* Properties of the creation of the token record
\* ======================================================================
\* C22: InitializeToken with total_supply = 0 fails with InvalidTokenSupply
\* and creates no record; with total_supply > 0 it succeeds and the record
\* has authority = caller, treasury = caller, is_initialized = true,
\* last_mint_timestamp = 0 and proposed_authority = none.  A step that
\* fails adds no record, a step that adds one has returned Ok.
C22_InitializeToken ==
    [][/\ \A caller \in Wallets, total_supply \in Supplies :
             LET done == InitializeOnNew(caller, total_supply, now)
             IN  IF total_supply = 0
                 THEN /\ done.result = "InvalidTokenSupply"
                      /\ done.token = None
                 ELSE /\ done.result = "Ok"
                      /\ done.token # None
                      /\ done.token[1].authority = caller
                      /\ done.token[1].treasury = caller
                      /\ done.token[1].is_initialized = TRUE
                      /\ done.token[1].last_mint_timestamp = 0
                      /\ done.token[1].proposed_authority = None
                      /\ done.token[1].total_supply = total_supply
       /\ (last'.op = "InitializeToken" /\ last'.result # "Ok") => token' = token
       /\ \A t \in DOMAIN token' \ DOMAIN token :
             /\ last'.op = "InitializeToken"
             /\ last'.result = "Ok"
             /\ token'[t].authority \in Wallets
             /\ token'[t].treasury = token'[t].authority
             /\ token'[t].is_initialized = TRUE
             /\ token'[t].last_mint_timestamp = 0
             /\ token'[t].proposed_authority = None
             /\ token'[t].total_supply > 0]_vars

\* bob has initialized the token record.
C22_Witness ==
    /\ last.op = "InitializeToken"
    /\ last.result = "Ok"
    /\ DOMAIN token = TokenIds
    /\ \A t \in DOMAIN token :
          /\ token[t].authority = "bob"
          /\ token[t].treasury = "bob"
          /\ token[t].total_supply = 1000

\* C23: every token record has is_initialized = true and total_supply > 0;
\* no step removes a record or changes its total_supply, MintTokens
\* included; an InitializeToken against an account that holds a record
\* never returns Ok and leaves the record, with its authority, treasury,
\* supply, last_mint_timestamp and pending proposal, as it was.
C23_TokenCreatedOnce ==
    [][\A t \in DOMAIN token :
          /\ token[t].is_initialized = TRUE
          /\ token[t].total_supply > 0
          /\ t \in DOMAIN token'
          /\ token'[t].total_supply = token[t].total_supply
          /\ (last'.op = "InitializeToken" /\ now' = now)
                => /\ last'.result # "Ok"
                   /\ token'[t] = token[t]
          /\ \A caller \in Wallets :
                /\ \A total_supply \in Supplies :
                      /\ InitializeOnExisting(caller, total_supply, now).result # "Ok"
                      /\ InitializeOnExisting(caller, total_supply, now).token = None
                /\ \A amount \in MintAmounts, cpi_ok \in BOOLEAN :
                      mint_tokens(token[t], caller, amount, cpi_ok, now).token.total_supply
                          = token[t].total_supply]_vars

\* A second InitializeToken has been refused on a record that has minted,
\* holds a proposal and has had its treasury and its authority changed.
C23_Witness ==
    /\ last.op = "InitializeToken"
    /\ last.result = "AccountAlreadyInUse"
    /\ \A t \in DOMAIN token :
          /\ token[t].last_mint_timestamp > 0
          /\ token[t].proposed_authority # None
          /\ token[t].treasury \in TokenAccounts
          /\ token[t].authority # token[t].treasury
    /\ \E t \in DOMAIN token : token[t].total_supply = 1000

\* C24: SetTreasury from anyone but the current authority fails with
\* UnauthorizedAccess and leaves the record, treasury included, as it was;
\* from the authority it succeeds, sets treasury to the argument and leaves
\* authority, proposed_authority, authority_proposal_timestamp,
\* total_supply and last_mint_timestamp unchanged.
C24_SetTreasuryFrame ==
    [][\A t \in DOMAIN token :
          /\ \A caller \in Wallets, new_treasury \in TokenAccounts :
                LET done == set_treasury(token[t], caller, new_treasury, now)
                IN  IF caller # token[t].authority
                    THEN /\ done.result = "UnauthorizedAccess"
                         /\ done.token = token[t]
                    ELSE /\ done.result = "Ok"
                         /\ done.token.treasury = new_treasury
                         /\ done.token.authority = token[t].authority
                         /\ done.token.proposed_authority = token[t].proposed_authority
                         /\ done.token.authority_proposal_timestamp
                                = token[t].authority_proposal_timestamp
                         /\ done.token.total_supply = token[t].total_supply
                         /\ done.token.last_mint_timestamp = token[t].last_mint_timestamp
          /\ (last'.op = "SetTreasury" /\ now' = now) =>
                /\ token'[t].authority = token[t].authority
                /\ token'[t].proposed_authority = token[t].proposed_authority
                /\ token'[t].authority_proposal_timestamp
                       = token[t].authority_proposal_timestamp
                /\ token'[t].total_supply = token[t].total_supply
                /\ token'[t].last_mint_timestamp = token[t].last_mint_timestamp
                /\ last'.result # "Ok" => token'[t] = token[t]
          /\ token'[t].treasury # token[t].treasury
                => last'.op = "SetTreasury" /\ last'.result = "Ok"]_vars

\* The authority, who got it by an Accept, has set the treasury on a record
\* that has minted and holds a proposal.
C24_Witness ==
    /\ last.op = "SetTreasury"
    /\ last.result = "Ok"
    /\ \A t \in DOMAIN token :
          /\ token[t].treasury = "ta_carol"
          /\ token[t].authority = "bob"
          /\ token[t].proposed_authority # None
          /\ token[t].last_mint_timestamp > 0
          /\ token[t].last_update_timestamp = now

\* ======================================================================
\* Properties of the recording of contributions
\* ======================================================================
\* C25: Record fails with InvalidContributionImprovementValue when
\* accuracy_improvement is outside [0,1] and with InvalidDataHash when the
\* hash is shorter than 16 characters, creating no Contribution and leaving
\* the Model, its contribution_count included, as it was; otherwise it
\* creates a Contribution with status = Pending, reward_amount = 0,
\* processed_at = none, model = the target Model and contributor = the
\* caller, and adds exactly 1 to the contribution_count of that Model and
\* of no other.
C25_RecordContribution ==
    [][/\ \A m \in DOMAIN models, contributor \in Contributors,
             accuracy_improvement \in ImprovementInputs, hash_len \in HashLens :
             LET done == record_contribution(m, models[m], contributor,
                                             accuracy_improvement, hash_len, now)
             IN  IF accuracy_improvement < 0 \/ accuracy_improvement > 100
                 THEN /\ done.result = "InvalidContributionImprovementValue"
                      /\ done.contribution = None
                      /\ done.model = models[m]
                 ELSE IF hash_len < 16
                 THEN /\ done.result = "InvalidDataHash"
                      /\ done.contribution = None
                      /\ done.model = models[m]
                 ELSE /\ done.result = "Ok"
                      /\ done.contribution # None
                      /\ done.contribution[1].status = "Pending"
                      /\ done.contribution[1].reward_amount = 0
                      /\ done.contribution[1].processed_at = None
                      /\ done.contribution[1].model = m
                      /\ done.contribution[1].contributor = contributor
                      /\ done.contribution[1].accuracy_improvement = accuracy_improvement
                      /\ done.model.contribution_count = models[m].contribution_count + 1
                      /\ [done.model EXCEPT !.contribution_count = 0]
                             = [models[m] EXCEPT !.contribution_count = 0]
       /\ (last'.op = "RecordContribution" /\ last'.result # "Ok" /\ now' = now)
             => /\ contributions' = contributions
                /\ models' = models
       /\ \A c \in DOMAIN contributions' \ DOMAIN contributions :
             /\ last'.op = "RecordContribution"
             /\ last'.result = "Ok"
             /\ contributions'[c].status = "Pending"
             /\ contributions'[c].reward_amount = 0
             /\ contributions'[c].processed_at = None
             /\ contributions'[c].contributor \in Contributors
             /\ \A m \in DOMAIN models :
                   models'[m].contribution_count =
                       IF m = contributions'[c].model
                       THEN models[m].contribution_count + 1
                       ELSE models[m].contribution_count
       /\ \A m \in DOMAIN models :
             models'[m].contribution_count # models[m].contribution_count
                => DOMAIN contributions' # DOMAIN contributions]_vars

\* carol has recorded a contribution to the model m2, counted there and
\* not on m1.
C25_Witness ==
    /\ last.op = "RecordContribution"
    /\ last.result = "Ok"
    /\ last.c \in DOMAIN contributions
    /\ contributions[last.c].model = "m2"
    /\ contributions[last.c].contributor = "carol"
    /\ contributions[last.c].status = "Pending"
    /\ models["m2"].contribution_count = 1
    /\ models["m1"].contribution_count = 0

\* The record Register and Derive leave for a caller, apart from the
\* parent: the caller as authority, nothing counted, nothing verified.
IsFreshModel(model, caller, hash_len, accuracy) ==
    /\ model.authority = caller
    /\ model.model_hash = hash_len
    /\ model.accuracy = accuracy
    /\ model.contribution_count = 0
    /\ model.verification_count = 0
    /\ model.usage_count = 0
    /\ model.avg_confidence_score = 0
    /\ model.is_verified = FALSE
    /\ model.created_at = now
    /\ model.updated_at = now

\* C26: Register and Derive fail with InvalidModelHash when the hash is
\* shorter than 16 characters and with InvalidAccuracyValue when accuracy
\* is outside [0,1], creating nothing; otherwise the new Model has
\* authority = caller, all three counters = 0, avg_confidence_score = 0,
\* is_verified = false, and parent_model = none for Register or the
\* identity of the parent for Derive, and Derive leaves the parent Model
\* (every existing Model) unchanged and copies none of its statistics.
C26_RegisterAndDerive ==
    [][/\ \A caller \in Wallets, hash_len \in HashLens, accuracy \in AccuracyInputs :
             LET registered == register_model(caller, hash_len, accuracy, now)
             IN  /\ IF hash_len < 16
                    THEN registered = [result |-> "InvalidModelHash", model |-> None]
                    ELSE IF accuracy < 0 \/ accuracy > 100
                    THEN registered = [result |-> "InvalidAccuracyValue", model |-> None]
                    ELSE /\ registered.result = "Ok"
                         /\ registered.model # None
                         /\ IsFreshModel(registered.model[1], caller, hash_len, accuracy)
                         /\ registered.model[1].parent_model = None
                 /\ \A parent \in DOMAIN models :
                       LET derived == create_derived_model(parent, models[parent], caller,
                                                           hash_len, accuracy, now)
                       IN  IF hash_len < 16
                           THEN derived = [result |-> "InvalidModelHash", model |-> None]
                           ELSE IF accuracy < 0 \/ accuracy > 100
                           THEN derived = [result |-> "InvalidAccuracyValue", model |-> None]
                           ELSE /\ derived.result = "Ok"
                                /\ derived.model # None
                                /\ IsFreshModel(derived.model[1], caller, hash_len, accuracy)
                                /\ derived.model[1].parent_model = Some(parent)
       /\ (last'.op \in {"RegisterModel", "CreateDerivedModel"} /\ now' = now)
             => /\ \A m \in DOMAIN models :
                      m \in DOMAIN models' /\ models'[m] = models[m]
                /\ last'.result # "Ok" => models' = models
                /\ last'.result = "Ok" =>
                      \E m \in DOMAIN models' \ DOMAIN models :
                          /\ DOMAIN models' = DOMAIN models \cup {m}
                          /\ models'[m].contribution_count = 0
                          /\ models'[m].verification_count = 0
                          /\ models'[m].usage_count = 0
                          /\ models'[m].avg_confidence_score = 0
                          /\ models'[m].is_verified = FALSE
                          /\ models'[m].authority \in Wallets
                          /\ IF last'.op = "RegisterModel"
                             THEN models'[m].parent_model = None
                             ELSE \E parent \in DOMAIN models :
                                      models'[m].parent_model = Some(parent)]_vars

\* bob has derived m2 from m1 after a contribution was counted on m1: m1
\* still counts it and m2 counts nothing.
C26_Witness ==
    /\ last.op = "CreateDerivedModel"
    /\ last.result = "Ok"
    /\ "m2" \in DOMAIN models
    /\ models["m2"].parent_model = Some("m1")
    /\ models["m2"].authority = "bob"
    /\ models["m1"].contribution_count = 1
    /\ models["m2"].contribution_count = 0

\* C27: Update by a caller that is not the authority of the Model fails
\* with UnauthorizedAccess and changes no field of the Model, whatever
\* fields it provides; Update by the authority never fails with that error.
C27_UpdateByStranger ==
    /\ [](\A m \in DOMAIN models, a \in UpdateInputs :
             IF a.caller # models[m].authority
             THEN /\ UpdateOn(models[m], a).result = "UnauthorizedAccess"
                  /\ UpdateOn(models[m], a).model = models[m]
             ELSE UpdateOn(models[m], a).result # "UnauthorizedAccess")
    /\ [][(last'.op = "UpdateModel" /\ last'.result = "UnauthorizedAccess" /\ now' = now)
             => models' = models]_vars

\* After the clock advanced, a caller has been refused with
\* UnauthorizedAccess while m1 is as alice registered it; the same state
\* refuses bob's update of every field of m1.
C27_Witness ==
    /\ last.op = "UpdateModel"
    /\ last.result = "UnauthorizedAccess"
    /\ now > 1
    /\ models["m1"] = NewModel("alice", MinHashLen, 80, 1)
    /\ UpdateOn(models["m1"],
                [caller |-> "bob", name |-> Some("name 2"), model_hash |-> Some(16),
                 accuracy |-> Some(0), performance_metrics |-> Some("metrics 2")])
           = [result |-> "UnauthorizedAccess", model |-> models["m1"]]

\* The fields of a Model that no Update may change.
UpdateFrame(model) ==
    <<model.authority, model.contribution_count, model.verification_count,
      model.usage_count, model.avg_confidence_score, model.is_verified,
      model.parent_model, model.created_at>>

\* C28: a successful Update changes only the fields that were provided
\* plus updated_at: every omitted field among name (and description and
\* version, which the handler treats as it treats name), model_hash,
\* accuracy and performance_metrics keeps its value, every provided one
\* takes the value given, updated_at becomes the current time, and
\* authority, the three counters, avg_confidence_score, is_verified,
\* parent_model and created_at are never changed by Update.
C28_UpdateFrame ==
    /\ [](\A m \in DOMAIN models, a \in UpdateInputs :
             LET done == UpdateOn(models[m], a)
             IN  /\ UpdateFrame(done.model) = UpdateFrame(models[m])
                 /\ done.result = "Ok" =>
                       /\ done.model.name =
                              IF a.name = None THEN models[m].name ELSE a.name[1]
                       /\ done.model.model_hash =
                              IF a.model_hash = None THEN models[m].model_hash
                              ELSE a.model_hash[1]
                       /\ done.model.accuracy =
                              IF a.accuracy = None THEN models[m].accuracy
                              ELSE a.accuracy[1]
                       /\ done.model.performance_metrics =
                              IF a.performance_metrics = None
                              THEN models[m].performance_metrics
                              ELSE a.performance_metrics[1]
                       /\ done.model.updated_at = now)
    /\ [][(last'.op = "UpdateModel" /\ now' = now)
             => /\ DOMAIN models' = DOMAIN models
                /\ \A m \in DOMAIN models :
                      /\ UpdateFrame(models'[m]) = UpdateFrame(models[m])
                      /\ models'[m] # models[m] =>
                            /\ last'.result = "Ok"
                            /\ models'[m].updated_at = now
                            /\ \A other \in DOMAIN models \ {m} :
                                  models'[other] = models[other]]_vars

\* alice has updated the accuracy of m1 alone, after renaming it, at a time
\* later than its registration: the metrics and the hash are those of the
\* registration.
C28_Witness ==
    /\ last.op = "UpdateModel"
    /\ last.result = "Ok"
    /\ models["m1"].name = "name 2"
    /\ models["m1"].accuracy = 0
    /\ models["m1"].performance_metrics = RegisteredMetrics
    /\ models["m1"].model_hash = MinHashLen
    /\ models["m1"].created_at = 1
    /\ models["m1"].updated_at = now
    /\ now > 1

\* The errors returned for an invalid argument.
ValidationErrors ==
    {"InvalidModelHash", "InvalidAccuracyValue", "InvalidTokenSupply",
     "InvalidContributionImprovementValue", "InvalidDataHash"}

ScoreRuns(n) ==
    UNION {[1..k -> {s \in ConfidenceScores : s >= 0 /\ s <= AccScale}] : k \in 0..n}

RECURSIVE SumOf(_)
SumOf(scores) ==
    IF scores = <<>> THEN 0 ELSE scores[1] + SumOf(Tail(scores))

\* The Model after RecordUsage calls with the given scores, in order.
RECURSIVE RecordAll(_, _)
RecordAll(model, scores) ==
    IF scores = <<>> THEN model
    ELSE RecordAll(record_usage(model, scores[1], now).model, Tail(scores))

\* C30: running mean.  After n successful RecordUsage calls with scores
\* s1..sn on a Model, usage_count = n and avg_confidence_score =
\* (s1+...+sn)/n: a Model never used has count 0 and average 0, and n
\* further calls on any reachable Model add n to the count and make
\* average * count the old average * old count plus the n scores, each
\* call succeeding.  A RecordUsage with a score outside [0,1] fails with
\* InvalidConfidenceScore and changes neither usage_count nor
\* avg_confidence_score (nor anything else).
C30_RunningMean ==
    \A m \in DOMAIN models :
        /\ models[m].usage_count = 0 => models[m].avg_confidence_score = 0
        /\ \A scores \in ScoreRuns(MaxUsage - models[m].usage_count) :
              LET after == RecordAll(models[m], scores)
              IN  /\ after.usage_count = models[m].usage_count + Len(scores)
                  /\ after.avg_confidence_score * after.usage_count =
                         models[m].avg_confidence_score * models[m].usage_count
                             + AsAverage(SumOf(scores))
                  /\ \A k \in 1..Len(scores) :
                        record_usage(RecordAll(models[m], SubSeq(scores, 1, k - 1)),
                                     scores[k], now).result = "Ok"
        /\ \A confidence_score \in ConfidenceScores :
              (confidence_score < 0 \/ confidence_score > 100)
                 => record_usage(models[m], confidence_score, now)
                        = [result |-> "InvalidConfidenceScore", model |-> models[m]]

\* m1 has been used three times, with scores 0, 0.5 and 1 in some order or
\* otherwise summing to 1.5: its average is 0.5; the last call, with a
\* score out of range, was refused.
C30_Witness ==
    /\ last.op = "RecordUsage"
    /\ last.result = "InvalidConfidenceScore"
    /\ models["m1"].usage_count = 3
    /\ models["m1"].avg_confidence_score = AsAverage(50)
    /\ "m2" \in DOMAIN models
    /\ models["m2"].usage_count = 2
    /\ models["m2"].avg_confidence_score * 2 = AsAverage(100 + 50)

\* ======================================================================
\* Properties of the ratio inputs, the counters and the verifications
\* ======================================================================
\* Ratios from below 0 to above 1, with 0, 1 and their neighbours.
RatioInputs == {0 - 100, 0 - 1, 0, 1, 50, 99, 100, 101, 200}

InUnitInterval(x) == x >= 0 /\ x <= 100

\* The result an operation must give for a ratio x when its other
\* arguments are valid.
RatioResult(x, error) == IF InUnitInterval(x) THEN "Ok" ELSE error

\* C31: every ratio input (accuracy in Register, Derive and Update,
\* accuracy_improvement in Record, confidence_score in RecordUsage and in
\* the four verification entry points) is accepted at exactly 0 and exactly
\* 1 and at every value between, and is rejected, with the error of the
\* operation, for every value below 0 or above 1.  The other arguments are
\* valid ones.
C31_RatiosInClosedUnitInterval ==
    \A x \in RatioInputs :
        /\ register_model("alice", MinHashLen, x, now).result
              = RatioResult(x, "InvalidAccuracyValue")
        /\ \A m \in DOMAIN models :
              /\ create_derived_model(m, models[m], "bob", MinHashLen, x, now).result
                    = RatioResult(x, "InvalidAccuracyValue")
              /\ update_model(models[m], None, None, Some(x), None, now).result
                    = RatioResult(x, "InvalidAccuracyValue")
              /\ InUnitInterval(x) =>
                    update_model(models[m], None, None, Some(x), None, now).model.accuracy = x
              /\ record_contribution(m, models[m], "carol", x, MinHashLen, now).result
                    = RatioResult(x, "InvalidContributionImprovementValue")
              /\ record_usage(models[m], x, now).result
                    = RatioResult(x, "InvalidConfidenceScore")
        /\ \A entry \in EntryPoints : \A model \in ModelArgs(entry) :
              LET done == Handled(entry, [model |-> model, verifier |-> "carol",
                                          hash_len |-> MinHashLen,
                                          verification_method |-> "expert panel",
                                          confidence_score |-> x])
              IN  /\ done.result = RatioResult(x, "InvalidConfidenceScore")
                  /\ InUnitInterval(x) => done.verification[1].confidence_score = x

\* One Verification has been stored with confidence 0 and one with
\* confidence 1, the second by ExpertVerification.
C31_Witness ==
    /\ last.op = "ExpertVerification"
    /\ last.result = "Ok"
    /\ \E v \in DOMAIN verifications : verifications[v].confidence_score = 0
    /\ \E v \in DOMAIN verifications :
          /\ verifications[v].confidence_score = 100
          /\ verifications[v].verification_type = "ExpertReview"

\* The three counters of a Model.
CountersOf(model) ==
    <<model.contribution_count, model.verification_count, model.usage_count>>

\* Each counter of after is the counter of before, or 1 more.
GrowsByAtMostOne(before, after) ==
    \A i \in 1..3 :
        CountersOf(after)[i] \in {CountersOf(before)[i], CountersOf(before)[i] + 1}

\* C32: for every Model, contribution_count, verification_count and
\* usage_count never decrease along any sequence of operations, and each
\* successful operation changes each of them by at most 1: on every step
\* every Model stays and each of its counters stays or grows by 1, and so
\* it is for the Model each verification entry point, each Record and each
\* RecordUsage would leave in the current state.
C32_CountersOnlyGrow ==
    /\ [][\A m \in DOMAIN models :
             /\ m \in DOMAIN models'
             /\ GrowsByAtMostOne(models[m], models'[m])]_vars
    /\ [](\A m \in DOMAIN models :
             /\ \A entry \in EntryPoints : \A a \in VerifyInputs(entry) :
                   /\ GrowsByAtMostOne(models[m], ModelsAfter(entry, a)[m])
                   /\ Handled(entry, a).model # None =>
                         GrowsByAtMostOne(models[a.model[1]], Handled(entry, a).model[1])
             /\ \A accuracy_improvement \in ImprovementInputs, hash_len \in HashLens :
                   GrowsByAtMostOne(models[m],
                       record_contribution(m, models[m], "carol", accuracy_improvement,
                                           hash_len, now).model)
             /\ \A confidence_score \in ConfidenceScores :
                   GrowsByAtMostOne(models[m],
                       record_usage(models[m], confidence_score, now).model))

\* m1 has counted one contribution, two verifications and two usages, the
\* last operation being a verification of its output.
C32_Witness ==
    /\ last.op = "VerifyModelOutput"
    /\ last.result = "Ok"
    /\ CountersOf(models["m1"]) = <<1, 2, 2>>

\* The Verification records that reference the Model m.
VerificationsOf(m) ==
    {v \in DOMAIN verifications : verifications[v].model = Some(m)}

\* C33: each successful verification call that references a Model
\* increments the verification_count of that Model exactly once, for all
\* four entry points, so the verification_count of a Model always equals
\* the number of Verification records that reference it (and a call without
\* a Model changes no Model).
C33_VerificationCountMatches ==
    \A m \in DOMAIN models :
        models[m].verification_count = Cardinality(VerificationsOf(m))

\* The tag each entry point gives its records.
TagOf(entry) ==
    CASE entry = "VerifyData" -> "MedicalData"
      [] entry = "VerifyAnalysis" -> "AnalysisResult"
      [] entry = "VerifyModelOutput" -> "ModelOutput"
      [] entry = "ExpertVerification" -> "ExpertReview"

\* The result the common validation gives, in its order.
ValidationOf(a) ==
    IF a.hash_len < 16 THEN "InvalidDataHash"
    ELSE IF a.verification_method = "" THEN "InvalidVerificationMethod"
    ELSE IF a.confidence_score < 0 \/ a.confidence_score > 100
    THEN "InvalidConfidenceScore"
    ELSE "Ok"

\* C34: all four verification entry points apply the same validation in
\* the same order (InvalidDataHash if the hash is shorter than 16, else
\* InvalidVerificationMethod if the method is empty, else
\* InvalidConfidenceScore if the score is outside [0,1]); a failing call
\* creates no Verification and changes no verification_count (no Model),
\* and a successful call creates a record tagged MedicalData,
\* AnalysisResult, ModelOutput or ExpertReview according to the entry
\* point, with verifier = caller.
C34_VerificationValidation ==
    /\ [](\A entry \in EntryPoints : \A a \in VerifyInputs(entry) :
             LET done == Handled(entry, a)
             IN  /\ done.result = ValidationOf(a)
                 /\ done.result # "Ok" =>
                       /\ done.verification = None
                       /\ ModelsAfter(entry, a) = models
                 /\ done.result = "Ok" =>
                       /\ done.verification # None
                       /\ done.verification[1].verification_type = TagOf(entry)
                       /\ done.verification[1].verifier = a.verifier
                       /\ done.verification[1].model = a.model
                       /\ done.verification[1].confidence_score = a.confidence_score)
    /\ [][(last'.op \in EntryPoints /\ now' = now) =>
             /\ last'.result # "Ok" =>
                   /\ verifications' = verifications
                   /\ models' = models
             /\ last'.result = "Ok" =>
                   \E v \in DOMAIN verifications' \ DOMAIN verifications :
                       /\ DOMAIN verifications' = DOMAIN verifications \cup {v}
                       /\ verifications'[v].verification_type = TagOf(last'.op)
                       /\ verifications'[v].verifier \in Verifiers
             /\ \A v \in DOMAIN verifications :
                   verifications'[v] = verifications[v]]_vars

\* carol has verified an output of m2, which counts it, and a following
\* ExpertVerification with an empty method has been refused, leaving that
\* one record.
C34_Witness ==
    /\ last.op = "ExpertVerification"
    /\ last.result = "InvalidVerificationMethod"
    /\ DOMAIN verifications = {"v1"}
    /\ verifications["v1"].verification_type = "ModelOutput"
    /\ verifications["v1"].verifier = "carol"
    /\ verifications["v1"].model = Some("m2")
    /\ models["m2"].verification_count = 1

\* ======================================================================
\* Properties of review, payout and the contribution records
\* ======================================================================
\* The fields of a Contribution that Review leaves alone.
ReviewFrame(contribution) ==
    <<contribution.reward_amount, contribution.processed_at,
      contribution.model, contribution.contributor>>

C36_OnePayoutOneBlend ==
    [][\A c \in DOMAIN contributions :
          ( /\ last'.op = "ApproveContribution"
            /\ last'.result = "Ok"
            /\ last'.c = c
            /\ now' = now
            /\ contributions[c].reward_amount > 0 )
             => /\ last'.transfers = <<>>
                /\ models' = models]_vars

\* ======================================================================
\* Properties of the authority over time
\* ======================================================================
\* The stored proposal of a token record, and whether it has expired at
\* the time given.
ProposalOf(mdnx_token) ==
    <<mdnx_token.proposed_authority, mdnx_token.authority_proposal_timestamp>>

IsExpiredAt(mdnx_token, time) ==
    /\ mdnx_token.proposed_authority # None
    /\ time - mdnx_token.authority_proposal_timestamp > 86400

\* C37: with a non-decreasing clock, a proposal that has expired (now -
\* proposal_timestamp > 86400) is never accepted afterwards: Accept by
\* anyone, now or at any later instant, fails and changes nothing, the
\* authority does not change while the expired proposal is the stored one,
\* the stored proposal is replaced only by a successful Propose or Cancel
\* of the current authority, and while it is stored it stays expired.
C37_ExpiredIsNeverAccepted ==
    /\ [](\A t \in DOMAIN token :
             IsExpiredAt(token[t], now) =>
                \A caller \in Wallets, later \in FromNow :
                    LET accepted == accept_authority_transfer(token[t], caller, later)
                    IN  /\ accepted.result \in {"UnauthorizedAccess", "AuthorityTransferExpired"}
                        /\ accepted.token = token[t]
                        /\ caller = token[t].proposed_authority[1]
                              => accepted.result = "AuthorityTransferExpired")
    /\ [][\A t \in DOMAIN token :
             IsExpiredAt(token[t], now) =>
                /\ token'[t].authority = token[t].authority
                /\ (last'.op = "AcceptAuthorityTransfer" /\ now' = now)
                      => last'.result # "Ok" /\ token' = token
                /\ ProposalOf(token'[t]) # ProposalOf(token[t])
                      => /\ last'.op \in {"ProposeAuthorityTransfer",
                                          "CancelAuthorityTransfer"}
                         /\ last'.result = "Ok"
                         /\ ~IsExpiredAt(token'[t], now')
                /\ ProposalOf(token'[t]) = ProposalOf(token[t])
                      => IsExpiredAt(token'[t], now')]_vars

\* bob's Accept of alice's proposal has been refused as expired: the
\* proposal is still stored and alice is still the authority.
C37_Witness ==
    /\ last.op = "AcceptAuthorityTransfer"
    /\ last.result = "AuthorityTransferExpired"
    /\ \A t \in DOMAIN token :
          /\ token[t].proposed_authority = Some("bob")
          /\ token[t].authority = "alice"
          /\ IsExpiredAt(token[t], now)

\* What a wallet gets from each of the four instructions reserved to the
\* authority, called on the token record given at the time given.
ReservedCalls(mdnx_token, caller, time) ==
    {propose_authority_transfer(mdnx_token, caller, new_authority, time) :
        new_authority \in Wallets}
    \cup {cancel_authority_transfer(mdnx_token, caller, time)}
    \cup {mint_tokens(mdnx_token, caller, amount, cpi_ok, time) :
            amount \in MintAmounts, cpi_ok \in BOOLEAN}
    \cup {set_treasury(mdnx_token, caller, new_treasury, time) :
            new_treasury \in TokenAccounts}

RefusedEverywhere(mdnx_token, caller, time) ==
    \A done \in ReservedCalls(mdnx_token, caller, time) :
        /\ done.result = "UnauthorizedAccess"
        /\ done.token = mdnx_token

\* The mint interval of the token record is still running at the time given.
CoolingDown(mdnx_token, time) ==
    /\ mdnx_token.last_mint_timestamp > 0
    /\ time - mdnx_token.last_mint_timestamp < 3600

\* C38: after a successful Accept that moves the authority from A to B
\* (A # B), every Propose, Cancel, MintTokens and SetTreasury of A fails
\* with UnauthorizedAccess and changes nothing, now and at every later
\* instant, for as long as A is not the stored authority, which only
\* another successful Accept can change; the transfer leaves
\* last_mint_timestamp as it was, so a mint interval started under A
\* still gets B's MintTokens refused as RateLimited.
C38_FormerAuthorityIsLockedOut ==
    /\ [](\A t \in DOMAIN token, caller \in Wallets, later \in FromNow :
             caller # token[t].authority
                => RefusedEverywhere(token[t], caller, later))
    /\ [][\A t \in DOMAIN token :
             /\ token'[t].authority # token[t].authority
                   => /\ last'.op = "AcceptAuthorityTransfer"
                      /\ last'.result = "Ok"
                      /\ now' = now
             /\ ( /\ last'.op = "AcceptAuthorityTransfer"
                  /\ last'.result = "Ok"
                  /\ now' = now
                  /\ token'[t].authority # token[t].authority )
                   => /\ token[t].proposed_authority = Some(token'[t].authority)
                      /\ token'[t].last_mint_timestamp = token[t].last_mint_timestamp
                      /\ RefusedEverywhere(token'[t], token[t].authority, now')
                      /\ CoolingDown(token[t], now)
                            => \A amount \in MintAmounts, cpi_ok \in BOOLEAN :
                                  LET minted == mint_tokens(token'[t], token'[t].authority,
                                                            amount, cpi_ok, now')
                                  IN  /\ minted.result = "RateLimited"
                                      /\ minted.token = token'[t]]_vars

\* bob has just accepted the authority from alice, one second short of an
\* hour after alice's mint: alice is refused everywhere and bob's mint is
\* rate limited.
C38_Witness ==
    /\ last.op = "AcceptAuthorityTransfer"
    /\ last.result = "Ok"
    /\ now = 3600
    /\ \A t \in DOMAIN token :
          /\ token[t].authority = "bob"
          /\ token[t].last_mint_timestamp = 1
          /\ token[t].last_update_timestamp = now
          /\ RefusedEverywhere(token[t], "alice", now)
          /\ mint_tokens(token[t], "bob", 10, TRUE, now).result = "RateLimited"

\* ======================================================================
\* Properties of the contribution ledger
\* ======================================================================
\* The Contribution records whose model field references the Model m.
ContributionsOf(m) == {c \in DOMAIN contributions : contributions[c].model = m}

\* C39: in every reachable state the contribution_count of each Model
\* equals the number of Contribution records whose model field references
\* it, every Contribution references a Model that exists, and no step
\* removes a Contribution or changes its model or contributor field.
C39_ContributionCountMatches ==
    /\ [](/\ \A m \in DOMAIN models :
                models[m].contribution_count = Cardinality(ContributionsOf(m))
          /\ \A c \in DOMAIN contributions :
                contributions[c].model \in DOMAIN models)
    /\ [][\A c \in DOMAIN contributions :
             /\ c \in DOMAIN contributions'
             /\ contributions'[c].model = contributions[c].model
             /\ contributions'[c].contributor = contributions[c].contributor]_vars

\* Two contributions of carol are recorded for m1 and the first has been
\* approved since: m1 counts two and bob's m2 counts none.
C39_Witness ==
    /\ DOMAIN models = {"m1", "m2"}
    /\ DOMAIN contributions = {"c1", "c2"}
    /\ \A c \in DOMAIN contributions :
          /\ contributions[c].model = "m1"
          /\ contributions[c].contributor = "carol"
    /\ contributions["c1"].status = "Approved"
    /\ contributions["c2"].status = "InReview"
    /\ models["m1"].contribution_count = 2
    /\ models["m2"].contribution_count = 0
    /\ models["m2"].authority = "bob"
====
